---- MODULE Spec2Model ----
(***************************************************************************)
(* Conversational Query Engine of the sales analytics assistant.           *)
(*                                                                         *)
(* Texts (generated SQL, data-store payloads, error messages) are          *)
(* sequences of one-character strings, so that the regular expressions and *)
(* str methods of backend/db/sql_safety.py and backend/llm/chain.py are    *)
(* computed character by character as Python computes them.               *)
(***************************************************************************)
EXTENDS Integers, Sequences, FiniteSets, TLC

(***************************************************************************)
(* Characters                                                              *)
(***************************************************************************)
UpperLetters == <<"A","B","C","D","E","F","G","H","I","J","K","L","M",
                  "N","O","P","Q","R","S","T","U","V","W","X","Y","Z">>

LowerLetters == <<"a","b","c","d","e","f","g","h","i","j","k","l","m",
                  "n","o","p","q","r","s","t","u","v","w","x","y","z">>

Digits == <<"0","1","2","3","4","5","6","7","8","9">>

Range(f) == { f[i] : i \in DOMAIN f }

UpperSet == Range(UpperLetters)

LowerSet == Range(LowerLetters)

DigitSet == Range(Digits)

\* str.lower() on one character
LowerChar(c) ==
    IF c \in UpperSet
    THEN LowerLetters[CHOOSE i \in DOMAIN UpperLetters : UpperLetters[i] = c]
    ELSE c

\* str.lower()
Lower(s) == [i \in DOMAIN s |-> LowerChar(s[i])]

\* \w of the re module (ASCII part)
IsWordChar(c) == c \in UpperSet \cup LowerSet \cup DigitSet \cup {"_"}

DigitValue(c) == (CHOOSE i \in DOMAIN Digits : Digits[i] = c) - 1

(***************************************************************************)
(* str methods                                                             *)
(***************************************************************************)
\* s[i:] with a 1-based first index
From(s, i) == SubSeq(s, i, Len(s))

\* p occurs in s starting at index i
OccursAt(s, p, i) ==
    /\ i >= 1
    /\ i + Len(p) - 1 <= Len(s)
    /\ \A k \in 1..Len(p) : s[i + k - 1] = p[k]

\* p in s
Contains(s, p) == \E i \in 1..(Len(s) - Len(p) + 1) : OccursAt(s, p, i)

\* s.find(p), 1-based; 0 when p does not occur
FindFirst(s, p) ==
    IF Contains(s, p)
    THEN CHOOSE i \in 1..(Len(s) - Len(p) + 1) :
            /\ OccursAt(s, p, i)
            /\ \A j \in 1..(i - 1) : ~OccursAt(s, p, j)
    ELSE 0

\* s.startswith(p)
StartsWith(s, p) == OccursAt(s, p, 1)

\* s.endswith(p)
EndsWith(s, p) == Len(p) <= Len(s) /\ OccursAt(s, p, Len(s) - Len(p) + 1)

\* first index of s at or after i whose character is not in cs
RECURSIVE LeadRun(_, _, _)
LeadRun(s, i, cs) ==
    IF i <= Len(s) /\ s[i] \in cs THEN LeadRun(s, i + 1, cs) ELSE i

\* last index of s at or before i whose character is not in cs
RECURSIVE TrailRun(_, _, _)
TrailRun(s, i, cs) ==
    IF i >= 1 /\ s[i] \in cs THEN TrailRun(s, i - 1, cs) ELSE i

\* s.lstrip(cs)
LStripBy(s, cs) == From(s, LeadRun(s, 1, cs))

\* s.rstrip(cs)
RStripBy(s, cs) == SubSeq(s, 1, TrailRun(s, Len(s), cs))

SpaceChars == {" ", "\n", "\t"}

\* the grave accent U+0060, which the lexer of TLA+ does not accept inside a
\* string: the one character of the model written as a name
Backtick == "GRAVE"

\* s.strip()
Strip(s) == RStripBy(LStripBy(s, SpaceChars), SpaceChars)

\* s.rstrip()
RStrip(s) == RStripBy(s, SpaceChars)

\* s.rstrip(";")
RStripSemicolons(s) == RStripBy(s, {";"})

\* s.strip(Backtick)
StripBackticks(s) == RStripBy(LStripBy(s, {Backtick}), {Backtick})

(***************************************************************************)
(* Words the code looks for, in the case the code compares them in         *)
(***************************************************************************)
W_INSERT == <<"i", "n", "s", "e", "r", "t">>

W_UPDATE == <<"u", "p", "d", "a", "t", "e">>

W_DELETE == <<"d", "e", "l", "e", "t", "e">>

W_DROP == <<"d", "r", "o", "p">>

W_ALTER == <<"a", "l", "t", "e", "r">>

W_TRUNCATE == <<"t", "r", "u", "n", "c", "a", "t", "e">>

W_CREATE == <<"c", "r", "e", "a", "t", "e">>

W_GRANT == <<"g", "r", "a", "n", "t">>

W_REVOKE == <<"r", "e", "v", "o", "k", "e">>

W_PG_CATALOG == <<"p", "g", "_", "c", "a", "t", "a", "l", "o", "g">>

W_INFORMATION_SCHEMA == <<"i", "n", "f", "o", "r", "m", "a", "t", "i", "o", "n", "_", "s", "c", "h", "e", "m", "a">>

W_SUM == <<"s", "u", "m">>

W_COUNT == <<"c", "o", "u", "n", "t">>

W_AVG == <<"a", "v", "g">>

W_MIN == <<"m", "i", "n">>

W_MAX == <<"m", "a", "x">>

W_LIMIT == <<"l", "i", "m", "i", "t">>

W_SELECT == <<"s", "e", "l", "e", "c", "t">>

\* the text f'LIMIT ' of ensure_limit
LIMIT_PREFIX == <<"L", "I", "M", "I", "T", " ">>

SQL_FENCE == <<Backtick, Backtick, Backtick, "s", "q", "l">>

FENCE == <<Backtick, Backtick, Backtick>>

SQLQUERY_LABEL == <<"S", "Q", "L", "Q", "u", "e", "r", "y", ":">>

DEFAULT_LIMIT == 200

IntCap == 100000

(***************************************************************************)
(* Regular expressions of db/sql_safety.py and llm/chain.py                *)
(***************************************************************************)
\* \b at the gap between s[i-1] and s[i]
WordBoundary(s, i) ==
    LET before == i > 1 /\ i - 1 <= Len(s) /\ IsWordChar(s[i - 1])
        after  == i >= 1 /\ i <= Len(s) /\ IsWordChar(s[i])
    IN  before # after

\* re.search(r"\bW\b", s, flags=re.IGNORECASE), W given in lower case
HasWholeWord(s, w) ==
    LET l == Lower(s)
    IN  \E i \in 1..(Len(s) - Len(w) + 1) :
            /\ OccursAt(l, w, i)
            /\ WordBoundary(s, i)
            /\ WordBoundary(s, i + Len(w))

FORBIDDEN_SQL ==
    { W_INSERT, W_UPDATE, W_DELETE, W_DROP, W_ALTER,
      W_TRUNCATE, W_CREATE, W_GRANT, W_REVOKE }

BLOCKED_SCHEMAS == { W_PG_CATALOG, W_INFORMATION_SCHEMA }

AGGREGATES == { W_SUM, W_COUNT, W_AVG, W_MIN, W_MAX }

\* re.search(r'\b(SUM|COUNT|AVG|MIN|MAX)\s*\(', sql, flags=re.IGNORECASE)
HasAggregate(sql) ==
    LET l == Lower(sql)
    IN  \E w \in AGGREGATES : \E i \in 1..(Len(sql) - Len(w) + 1) :
            /\ OccursAt(l, w, i)
            /\ WordBoundary(sql, i)
            /\ LET j == LeadRun(sql, i + Len(w), SpaceChars)
               IN  j <= Len(sql) /\ sql[j] = "("

\* r'\bLIMIT\s+(\d+)\b' matched at index i of s: the index after the match,
\* 0 when there is no match at i. \d+ is greedy and \b cannot hold inside a
\* run of digits, so the digits matched are the whole run.
LimitMatchEnd(s, i) ==
    IF OccursAt(Lower(s), W_LIMIT, i) /\ WordBoundary(s, i)
    THEN LET j == LeadRun(s, i + Len(W_LIMIT), SpaceChars)
             k == LeadRun(s, j, DigitSet)
         IN  IF j > i + Len(W_LIMIT) /\ k > j /\ WordBoundary(s, k) THEN k ELSE 0
    ELSE 0

\* group(1) of the match at i
LimitMatchDigits(s, i) ==
    LET j == LeadRun(s, i + Len(W_LIMIT), SpaceChars)
    IN  SubSeq(s, j, LimitMatchEnd(s, i) - 1)

HasLimit(s) == \E i \in 1..Len(s) : LimitMatchEnd(s, i) > 0

\* start of the leftmost match, as re.search finds it
FirstLimit(s) ==
    CHOOSE i \in 1..Len(s) :
        /\ LimitMatchEnd(s, i) > 0
        /\ \A j \in 1..(i - 1) : LimitMatchEnd(s, j) = 0

\* re.sub(r'\bLIMIT\s+\d+\b', rep, s, flags=re.IGNORECASE) from index i on
RECURSIVE SubLimit(_, _, _)
SubLimit(s, i, rep) ==
    IF i > Len(s) THEN <<>>
    ELSE IF LimitMatchEnd(s, i) > 0
         THEN rep \o SubLimit(s, LimitMatchEnd(s, i), rep)
         ELSE <<s[i]>> \o SubLimit(s, i + 1, rep)

Min(a, b) == IF a <= b THEN a ELSE b

\* int(ds). Python integers are unbounded; a value above IntCap is kept at
\* IntCap, which min(_, default_limit) cannot tell from the exact value.
RECURSIVE IntOf(_, _)
IntOf(ds, acc) ==
    IF ds = <<>> THEN acc
    ELSE IntOf(Tail(ds), Min(acc * 10 + DigitValue(Head(ds)), IntCap))

\* str(n) for n >= 0
RECURSIVE IntToStr(_)
IntToStr(n) ==
    IF n < 10 THEN <<Digits[n + 1]>>
    ELSE IntToStr(n \div 10) \o <<Digits[(n % 10) + 1]>>

(***************************************************************************)
(* Safety Gate: db/sql_safety.py                                           *)
(***************************************************************************)
\* first index >= from at which p occurs in s, 0 when there is none
FindFrom(s, p, from) ==
    IF \E i \in from..(Len(s) - Len(p) + 1) : OccursAt(s, p, i)
    THEN CHOOSE i \in from..(Len(s) - Len(p) + 1) :
            /\ OccursAt(s, p, i)
            /\ \A j \in from..(i - 1) : ~OccursAt(s, p, j)
    ELSE 0

\* re.search(r"```sql\s*(.*?)```", text_out, re.IGNORECASE | re.DOTALL):
\* <<start of group 1, index after group 1>>, <<0, 0>> when nothing matches.
\* The leftmost opening fence that has a closing fence after it is the first
\* opening fence; \s* takes the white space after it and the lazy group ends
\* at the first closing fence.
FenceMatch(text_out) ==
    LET open == FindFrom(Lower(text_out), SQL_FENCE, 1)
    IN  IF open = 0 THEN <<0, 0>>
        ELSE LET body  == LeadRun(text_out, open + Len(SQL_FENCE), SpaceChars)
                 close == FindFrom(text_out, FENCE, body)
             IN  IF close = 0 THEN <<0, 0>> ELSE <<body, close>>

extract_sql(text_out) ==
    IF text_out = <<>> THEN <<>>
    ELSE LET m == FenceMatch(text_out)
         IN  IF m[1] > 0 THEN Strip(SubSeq(text_out, m[1], m[2] - 1))
             ELSE IF Contains(text_out, SQLQUERY_LABEL)
                  THEN Strip(From(text_out,
                                  FindFirst(text_out, SQLQUERY_LABEL) + Len(SQLQUERY_LABEL)))
                  ELSE Strip(StripBackticks(Strip(text_out)))

\* is_select_only with re.IGNORECASE left out of the forbidden-verb search
is_select_only_case_sensitive(sql) ==
    LET s == Strip(sql)
    IN  /\ StartsWith(Lower(s), W_SELECT)
        /\ \A pat \in FORBIDDEN_SQL :
              ~\E i \in 1..(Len(s) - Len(pat) + 1) :
                  /\ OccursAt(s, pat, i)
                  /\ WordBoundary(s, i)
                  /\ WordBoundary(s, i + Len(pat))
        /\ ~Contains(RStripSemicolons(RStrip(s)), <<";">>)

\* is_select_only removing one trailing semicolon instead of the whole run
is_select_only_one_semicolon(sql) ==
    LET s == Strip(sql)
        r == RStrip(s)
    IN  /\ StartsWith(Lower(s), W_SELECT)
        /\ \A pat \in FORBIDDEN_SQL : ~HasWholeWord(s, pat)
        /\ ~Contains(IF EndsWith(r, <<";">>) THEN SubSeq(r, 1, Len(r) - 1) ELSE r,
                     <<";">>)

is_select_only(sql) ==
    LET s == Strip(sql)
    IN  /\ StartsWith(Lower(s), W_SELECT)
        /\ \A pat \in FORBIDDEN_SQL : ~HasWholeWord(s, pat)
        /\ ~Contains(RStripSemicolons(RStrip(s)), <<";">>)

\* ensure_limit taking max(existing_limit, default_limit)
ensure_limit_max(sql, default_limit) ==
    IF HasAggregate(sql) THEN sql
    ELSE IF HasLimit(sql)
         THEN LET existing_limit == IntOf(LimitMatchDigits(sql, FirstLimit(sql)), 0)
                  final_limit    == IF existing_limit >= default_limit
                                    THEN existing_limit ELSE default_limit
              IN  SubLimit(sql, 1, LIMIT_PREFIX \o IntToStr(final_limit))
         ELSE LET cleaned_sql == RStripSemicolons(Strip(sql))
              IN  cleaned_sql \o <<"\n">> \o LIMIT_PREFIX \o IntToStr(default_limit)

\* ensure_limit appending the default limit without removing semicolons
ensure_limit_keep_semicolon(sql, default_limit) ==
    IF HasAggregate(sql) THEN sql
    ELSE IF HasLimit(sql)
         THEN LET existing_limit == IntOf(LimitMatchDigits(sql, FirstLimit(sql)), 0)
                  final_limit    == Min(existing_limit, default_limit)
              IN  SubLimit(sql, 1, LIMIT_PREFIX \o IntToStr(final_limit))
         ELSE Strip(sql) \o <<"\n">> \o LIMIT_PREFIX \o IntToStr(default_limit)

ensure_limit(sql, default_limit) ==
    IF HasAggregate(sql) THEN sql
    ELSE IF HasLimit(sql)
         THEN LET existing_limit == IntOf(LimitMatchDigits(sql, FirstLimit(sql)), 0)
                  final_limit    == Min(existing_limit, default_limit)
              IN  SubLimit(sql, 1, LIMIT_PREFIX \o IntToStr(final_limit))
         ELSE LET cleaned_sql == RStripSemicolons(Strip(sql))
              IN  cleaned_sql \o <<"\n">> \o LIMIT_PREFIX \o IntToStr(default_limit)

\* enforce_allowlist comparing the table names without lower-casing them
enforce_allowlist_case_sensitive(sql, allowed_tables) ==
    LET s == Lower(sql)
    IN  /\ \A schema \in BLOCKED_SCHEMAS : ~Contains(s, schema)
        /\ (allowed_tables # <<>> =>
                \E k \in DOMAIN allowed_tables : Contains(s, allowed_tables[k]))

\* enforce_allowlist returns normally (TRUE) or raises ValueError (FALSE)
enforce_allowlist(sql, allowed_tables) ==
    LET s == Lower(sql)
    IN  /\ \A schema \in BLOCKED_SCHEMAS : ~Contains(s, schema)
        /\ (allowed_tables # <<>> =>
                \E k \in DOMAIN allowed_tables : Contains(s, Lower(allowed_tables[k])))

(***************************************************************************)
(* The auto-fix substitution of run_sql_from_question: llm/chain.py:178    *)
(***************************************************************************)
\* r'\\s*LIMIT\\s+\\d+' with re.IGNORECASE, matched at index i of s: a
\* backslash, any number of letters s, the word LIMIT, a backslash, one or
\* more letters s, a backslash, one or more letters d. The index after the
\* match, 0 when there is no match at i.
FixMatchEnd(s, i) ==
    LET l  == Lower(s)
        a  == LeadRun(l, i + 1, {"s"})
        b  == a + Len(W_LIMIT)
        c  == LeadRun(l, b + 1, {"s"})
        d  == LeadRun(l, c + 1, {"d"})
    IN  IF /\ i <= Len(s) /\ s[i] = "\\"
           /\ OccursAt(l, W_LIMIT, a)
           /\ b <= Len(s) /\ s[b] = "\\"
           /\ c > b + 1
           /\ c <= Len(s) /\ s[c] = "\\"
           /\ d > c + 1
        THEN d ELSE 0

\* re.sub(r'\\s*LIMIT\\s+\\d+', '', s, flags=re.IGNORECASE) from index i on
RECURSIVE FixSub(_, _)
FixSub(s, i) ==
    IF i > Len(s) THEN <<>>
    ELSE IF FixMatchEnd(s, i) > 0 THEN FixSub(s, FixMatchEnd(s, i))
         ELSE <<s[i]>> \o FixSub(s, i + 1)

(***************************************************************************)
(* Pieces of text the language model's output is composed of               *)
(***************************************************************************)
T_select_ == <<"s", "e", "l", "e", "c", "t", " ">>

T_SELECT == <<"S", "E", "L", "E", "C", "T">>

T_tbl == <<"t", "b", "l">>

T_TBL == <<"T", "B", "L">>

T_Dim == <<"D", "i", "m">>

T_dim == <<"d", "i", "m">>

T_sp == <<" ">>

T_nl == <<"\n">>

T_tab == <<"\t">>

T_x == <<"x">>

T_us == <<"_">>

T_semi == <<";">>

T_lpar == <<"(">>

T_drop == <<"d", "r", "o", "p">>

T_INSERT == <<"I", "N", "S", "E", "R", "T">>

T_Update == <<"U", "p", "d", "a", "t", "e">>

T_delete == <<"d", "e", "l", "e", "t", "e">>

T_ALTER == <<"A", "L", "T", "E", "R">>

T_Truncate == <<"T", "r", "u", "n", "c", "a", "t", "e">>

T_create == <<"c", "r", "e", "a", "t", "e">>

T_GRANT == <<"G", "R", "A", "N", "T">>

T_Revoke == <<"R", "e", "v", "o", "k", "e">>

T_select_tbl == <<"s", "e", "l", "e", "c", "t", " ", "t", "b", "l">>

T_sp_select_tbl_sp == <<" ", "s", "e", "l", "e", "c", "t", " ", "t", "b", "l", " ">>

T_select_sum_tbl == <<"s", "e", "l", "e", "c", "t", " ", "s", "u", "m", "(", "t", "b", "l", ")">>

T_pg_catalog == <<"p", "g", "_", "c", "a", "t", "a", "l", "o", "g">>

T_PG_Catalog == <<"P", "G", "_", "C", "a", "t", "a", "l", "o", "g">>

T_information_schema == <<"i", "n", "f", "o", "r", "m", "a", "t", "i", "o", "n", "_", "s", "c", "h", "e", "m", "a">>

T_limit_5 == <<" ", "l", "i", "m", "i", "t", " ", "5">>

T_LIMIT_500 == <<"L", "I", "M", "I", "T", " ", " ", "5", "0", "0">>

T_limit == <<" ", "l", "i", "m", "i", "t", " ">>

T_0 == <<"0">>

T_sum_l == <<"s", "u", "m", "(">>

T_sum == <<"s", "u", "m">>

T_COUNT == <<"C", "O", "U", "N", "T">>

T_avg == <<"a", "v", "g">>

T_min == <<"m", "i", "n">>

T_Max == <<"M", "a", "x">>

T_sql_fence == <<Backtick, Backtick, Backtick, "s", "q", "l">>

T_SQL_fence == <<Backtick, Backtick, Backtick, "S", "Q", "L", "\n">>

T_fence == <<Backtick, Backtick, Backtick>>

T_tick == <<Backtick>>

T_SQLQuery == <<"S", "Q", "L", "Q", "u", "e", "r", "y", ":">>

T_alog == <<"a", "l", "o", "g">>

(***************************************************************************)
(* Texts of the chat turn                                                  *)
(***************************************************************************)
\* markers of run_sql_from_question, llm/chain.py:165 and :175
W_ERROR == <<"e", "r", "r", "o", "r">>

W_SYNTAX == <<"s", "y", "n", "t", "a", "x">>

W_RELATION == <<"r", "e", "l", "a", "t", "i", "o", "n">>

W_COLUMN == <<"c", "o", "l", "u", "m", "n">>

W_SYNTAX_ERROR == <<"s", "y", "n", "t", "a", "x", " ", "e", "r", "r", "o", "r">>

\* f"SQL Error in result: " of llm/chain.py:166
SQL_ERROR_IN_RESULT == <<"S", "Q", "L", " ", "E", "r", "r", "o", "r", " ", "i", "n", " ", "r", "e", "s", "u", "l", "t", ":", " ">>

\* patterns of ChatService, app/services/chat_service.py:120-143 and :70
W_HI == <<"h", "i">>

W_HELLO == <<"h", "e", "l", "l", "o">>

W_HEY == <<"h", "e", "y">>

W_GOOD_MORNING == <<"g", "o", "o", "d", " ", "m", "o", "r", "n", "i", "n", "g">>

W_GREETINGS == <<"g", "r", "e", "e", "t", "i", "n", "g", "s">>

W_THANKS == <<"t", "h", "a", "n", "k", "s">>

W_THANK_YOU == <<"t", "h", "a", "n", "k", " ", "y", "o", "u">>

W_OK == <<"o", "k">>

W_GREAT == <<"g", "r", "e", "a", "t">>

W_COOL == <<"c", "o", "o", "l">>

W_WHO_ARE_YOU == <<"w", "h", "o", " ", "a", "r", "e", " ", "y", "o", "u">>

W_HELP_ME == <<"h", "e", "l", "p", " ", "m", "e">>

W_THANK == <<"t", "h", "a", "n", "k">>

W_EXPLAIN == <<"e", "x", "p", "l", "a", "i", "n">>

W_TELL_ME == <<"t", "e", "l", "l", " ", "m", "e">>

W_MORE == <<"m", "o", "r", "e">>

W_DETAIL == <<"d", "e", "t", "a", "i", "l">>

W_ELABORATE == <<"e", "l", "a", "b", "o", "r", "a", "t", "e">>

W_WHY_IS_THAT == <<"w", "h", "y", " ", "i", "s", " ", "t", "h", "a", "t">>

W_MORE_Q == <<"m", "o", "r", "e", "?">>

W_WHY == <<"w", "h", "y">>

W_HOW == <<"h", "o", "w">>

W_CAUSE == <<"c", "a", "u", "s", "e">>

\* payloads the data store returns and messages of the errors it raises
P_rows == <<"[", "(", "5", ",", ")", "]">>

P_column_x == <<"c", "o", "l", "u", "m", "n", " ", "x">>

P_Error_timeout == <<"E", "r", "r", "o", "r", ":", " ", "t", "i", "m", "e", "o", "u", "t">>

P_Error_syntax_error == <<"E", "r", "r", "o", "r", ":", " ", "s", "y", "n", "t", "a", "x", " ", "e", "r", "r", "o", "r", " ", "a", "t", " ", "e", "n", "d", " ", "o", "f", " ", "i", "n", "p", "u", "t">>

P_Error_bad_syntax == <<"E", "r", "r", "o", "r", ":", " ", "i", "n", "v", "a", "l", "i", "d", " ", "s", "y", "n", "t", "a", "x">>

P_Error_relation == <<"E", "r", "r", "o", "r", ":", " ", "r", "e", "l", "a", "t", "i", "o", "n", " ", "t", "b", "l", " ", "d", "o", "e", "s", " ", "n", "o", "t", " ", "e", "x", "i", "s", "t">>

P_Error_column == <<"E", "r", "r", "o", "r", ":", " ", "c", "o", "l", "u", "m", "n", " ", "x", " ", "d", "o", "e", "s", " ", "n", "o", "t", " ", "e", "x", "i", "s", "t">>

P_Error_LIMIT == <<"E", "r", "r", "o", "r", ":", " ", "a", "r", "g", "u", "m", "e", "n", "t", " ", "o", "f", " ", "L", "I", "M", "I", "T">>

E_Syntax_Error == <<"S", "y", "n", "t", "a", "x", " ", "E", "r", "r", "o", "r", " ", "n", "e", "a", "r", " ", "F", "R", "O", "M">>

E_LIMIT == <<"b", "a", "d", " ", "L", "I", "M", "I", "T">>

E_connection == <<"c", "o", "n", "n", "e", "c", "t", "i", "o", "n", " ", "r", "e", "f", "u", "s", "e", "d">>

\* user messages
M_hi == <<"H", "i", "!">>

M_explain_more == <<"E", "x", "p", "l", "a", "i", "n", " ", "m", "o", "r", "e">>

M_total_sales == <<"t", "o", "t", "a", "l", " ", "s", "a", "l", "e", "s">>

M_hi_there == <<"h", "i", " ", "t", "h", "e", "r", "e">>

M_thank_you == <<"T", "h", "a", "n", "k", " ", "y", "o", "u", ".">>

M_who_are_you == <<"s", "o", " ", "w", "h", "o", " ", "a", "r", "e", " ", "y", "o", "u", "?">>

M_why_did == <<"W", "h", "y", " ", "d", "i", "d", " ", "s", "a", "l", "e", "s", " ", "d", "r", "o", "p">>

M_how_can == <<"h", "o", "w", " ", "c", "a", "n", " ", "w", "e", " ", "g", "r", "o", "w">>

M_what_caused == <<"w", "h", "a", "t", " ", "c", "a", "u", "s", "e", "d", " ", "t", "h", "e", " ", "d", "r", "o", "p">>

M_root_cause == <<"r", "o", "o", "t", " ", "c", "a", "u", "s", "e", " ", "o", "f", " ", "l", "o", "w", " ", "s", "a", "l", "e", "s">>

M_hey_help_me == <<"h", "e", "y", " ", "h", "e", "l", "p", " ", "m", "e", " ", "o", "u", "t">>

M_tell_me_more == <<"T", "e", "l", "l", " ", "m", "e", " ", "m", "o", "r", "e">>

M_explain_more_help_me ==
    <<"e", "x", "p", "l", "a", "i", "n", " ",
      "m", "o", "r", "e", ",", " ", "h", "e", "l", "p", " ", "m", "e">>

M_also_by_zone == <<"a", "l", "s", "o", " ", "b", "y", " ", "z", "o", "n", "e">>

\* pieces of generated text used in whole turns
T_sp_limit_500 == <<" ", "l", "i", "m", "i", "t", " ", "5", "0", "0">>

T_select_x == <<"s", "e", "l", "e", "c", "t", " ", "x">>

T_sp_drop == <<" ", "d", "r", "o", "p">>

T_sp_sum == <<" ", "s", "u", "m", "(", "x", ")">>

T_pg_cat_fix == <<" ", "p", "g", "_", "c", "a", "t", "\\", "L", "I", "M", "I", "T", "\\", "s", "\\", "d">>

(***************************************************************************)
(* Bounds and input sets                                                   *)
(***************************************************************************)
\* pieces that follow the opening piece of a generated text
MaxTokens == 3

RECURSIVE Concat(_)
Concat(ts) == IF ts = <<>> THEN <<>> ELSE Head(ts) \o Concat(Tail(ts))

\* whole turns: pieces that follow the opening piece of a generated text
MaxTurnTokens == 2

\* the texts made of one opening piece and at most max further pieces
TextsUpTo(starts, toks, max) ==
    { s \o Concat(ts) :
        s \in starts, ts \in UNION { [1..n -> toks] : n \in 0..max } }

TextsOver(starts, toks) == TextsUpTo(starts, toks, MaxTokens)

\* settings.ALLOWED_TABLES split on commas; the empty list is ALLOWED_TABLES=""
NoTables == <<>>

OneTable == <<T_tbl>>

TwoTables == <<T_tbl, T_Dim>>

AllowConfigs == { NoTables, OneTable, TwoTables }

VerbTexts ==
    TextsOver({T_select_, T_SELECT}, {T_tbl, T_sp, T_x, T_drop, T_INSERT, T_Update})
    \cup TextsOver({T_select_}, {T_tbl, T_nl, T_us, T_delete, T_ALTER, T_Truncate})
    \cup TextsOver({T_select_}, {T_tbl, T_tab, T_semi, T_create, T_GRANT, T_Revoke})

SemicolonTexts ==
    TextsOver({T_select_tbl, T_sp_select_tbl_sp, T_x}, {T_semi, T_sp, T_x, T_nl})

SchemaTexts ==
    TextsOver({T_select_},
              {T_tbl, T_TBL, T_dim, T_sp, T_pg_catalog, T_PG_Catalog, T_information_schema})

LimitTexts ==
    TextsOver({T_select_tbl, T_select_sum_tbl},
              {T_limit_5, T_LIMIT_500, T_limit, T_sp, T_0, T_x, T_semi, T_sum_l})

AggregateTexts ==
    TextsOver({T_select_tbl}, {T_sp, T_x, T_lpar, T_sum, T_COUNT, T_avg, T_min, T_Max})

WrapperTexts ==
    TextsOver({<<>>, T_sp},
              {T_sql_fence, T_SQL_fence, T_fence, T_tick, T_SQLQuery,
               T_select_tbl, T_select_sum_tbl})

\* the inputs of the Safety Gate: <<allow-list, generated text>>
GateInputs ==
    ({TwoTables} \X (VerbTexts \cup SemicolonTexts \cup LimitTexts
                        \cup AggregateTexts \cup WrapperTexts))
    \cup (AllowConfigs \X SchemaTexts)

(***************************************************************************)
(* validate_and_normalize: llm/chain.py:146-155                            *)
(***************************************************************************)
\* the gate with the call of enforce_allowlist (line 154) left out
Gate_without_allowlist(text_out, allowed) ==
    LET sql == extract_sql(text_out)
    IN  IF ~is_select_only(sql)
        THEN [sql |-> sql, error |-> "unsafe", out |-> <<>>]
        ELSE [sql |-> sql, error |-> "none", out |-> ensure_limit(sql, DEFAULT_LIMIT)]

\* error is "none" when the text is accepted, and then out is the query that
\* will be executed
Gate(text_out, allowed) ==
    LET sql == extract_sql(text_out)
    IN  IF ~is_select_only(sql)
        THEN [sql |-> sql, error |-> "unsafe", out |-> <<>>]
        ELSE IF ~enforce_allowlist(sql, allowed)
             THEN [sql |-> sql, error |-> "schema", out |-> <<>>]
             ELSE [sql |-> sql, error |-> "none", out |-> ensure_limit(sql, DEFAULT_LIMIT)]

VARIABLES
    allowed_tables,  \* SalesGPTCore.allowed_tables
    g_pc,            \* Safety Gate alone: "input", "accepted", "rejected", "again"
    g_raw,           \* the text given to the gate
    g_sql,           \* extract_sql(g_raw)
    g_error,         \* "none", "unsafe" or "schema"
    g_out,           \* the normalized statement
    g_second         \* the gate's result on its own output

gate_vars == <<allowed_tables, g_pc, g_raw, g_sql, g_error, g_out, g_second>>

NoResult == [sql |-> <<>>, error |-> "none", out |-> <<>>]

(***************************************************************************)
(* Intent rules of ChatService: app/services/chat_service.py               *)
(***************************************************************************)
\* the class [\s!.]
PunctChars == SpaceChars \cup {"!", "."}

\* re.match(r'^(a|b|...)[\s!.]*$', msg)
MatchesThenPunct(msg, alts) ==
    \E a \in alts :
        /\ StartsWith(msg, a)
        /\ \A i \in (Len(a) + 1)..Len(msg) : msg[i] \in PunctChars

\* _is_conversational with the end anchor left out of its two patterns
_is_conversational_prefix(m) ==
    LET msg == Lower(Strip(m))
    IN  \/ \E a \in {W_HI, W_HELLO, W_HEY, W_GOOD_MORNING, W_GREETINGS} :
              StartsWith(msg, a)
        \/ \E a \in {W_THANKS, W_THANK_YOU, W_OK, W_GREAT, W_COOL} :
              StartsWith(msg, a)
        \/ Contains(msg, W_WHO_ARE_YOU)
        \/ Contains(msg, W_HELP_ME)

_is_conversational(m) ==
    LET msg == Lower(Strip(m))
    IN  \/ MatchesThenPunct(msg, {W_HI, W_HELLO, W_HEY, W_GOOD_MORNING, W_GREETINGS})
        \/ MatchesThenPunct(msg, {W_THANKS, W_THANK_YOU, W_OK, W_GREAT, W_COOL})
        \/ Contains(msg, W_WHO_ARE_YOU)
        \/ Contains(msg, W_HELP_ME)

_get_conversational_response(m) ==
    LET msg == Lower(Strip(m))
    IN  IF \E a \in {W_HI, W_HELLO, W_HEY} : StartsWith(msg, a) THEN "greeting"
        ELSE IF Contains(msg, W_THANK) THEN "welcome"
        ELSE IF Contains(msg, W_WHO_ARE_YOU) THEN "identity"
        ELSE "here_to_help"

_is_elaboration_request(m) ==
    LET msg == Lower(Strip(m))
    IN  \/ \E a \in {W_EXPLAIN, W_TELL_ME} :
              /\ StartsWith(msg, a)
              /\ LET j == LeadRun(msg, Len(a) + 1, SpaceChars)
                 IN  /\ j > Len(a) + 1
                     /\ (OccursAt(msg, W_MORE, j) \/ OccursAt(msg, W_DETAIL, j))
        \/ StartsWith(msg, W_ELABORATE)
        \/ StartsWith(msg, W_WHY_IS_THAT)
        \/ StartsWith(msg, W_MORE_Q)

\* re.search(r'\b(why|how|explain|cause)\b', message.lower())
IsAnalytical(m) ==
    \E w \in {W_WHY, W_HOW, W_EXPLAIN, W_CAUSE} : HasWholeWord(Lower(m), w)

\* the words of looks_like_followup's pattern
FOLLOWUP_WORDS ==
    { <<"n", "o", "w">>, <<"s", "a", "m", "e">>, <<"a", "l", "s", "o">>,
      <<"o", "n", "l", "y">>, <<"f", "i", "l", "t", "e", "r">>,
      <<"b", "r", "e", "a", "k", "d", "o", "w", "n">>, <<"b", "y">>,
      <<"f", "o", "r">>, <<"l", "a", "s", "t">>,
      <<"p", "r", "e", "v", "i", "o", "u", "s">>,
      <<"c", "o", "m", "p", "a", "r", "e">>, <<"t", "r", "e", "n", "d">> }

\* looks_like_followup of llm/chain.py, which process_message never calls
looks_like_followup(text) ==
    LET t == Lower(Strip(text))
    IN  \E w \in FOLLOWUP_WORDS : HasWholeWord(t, w)

(***************************************************************************)
(* Execution outcome rules of run_sql_from_question: llm/chain.py:159-191  *)
(***************************************************************************)
\* the returned payload holds error text (line 165)
EncodesError(result) ==
    LET result_str == Lower(result)
    IN  /\ Contains(result_str, W_ERROR)
        /\ \/ Contains(result_str, W_SYNTAX)
           \/ Contains(result_str, W_RELATION)
           \/ Contains(result_str, W_COLUMN)
           \/ Contains(result_str, W_LIMIT)

\* the test of line 175 asking for "syntax" where the code asks for
\* "syntax error"
IsRetryable_syntax(e_str) ==
    LET error_msg == Lower(e_str)
    IN  Contains(error_msg, W_LIMIT) \/ Contains(error_msg, W_SYNTAX)

\* the auto-fix attempted for every exception
IsRetryable_always(e_str) ==
    LET error_msg == Lower(e_str)
    IN  Len(error_msg) >= 0

\* the auto-fix is attempted for the exception whose str() is e_str (line 175)
IsRetryable(e_str) ==
    LET error_msg == Lower(e_str)
    IN  Contains(error_msg, W_LIMIT) \/ Contains(error_msg, W_SYNTAX_ERROR)

\* sql_fixed of lines 178-179
RepairSql(sql_text) == ensure_limit(FixSub(sql_text, 1), DEFAULT_LIMIT)

(***************************************************************************)
(* One chat turn: ChatService.process_message and                          *)
(* SalesGPTCore.run_sql_from_question                                      *)
(***************************************************************************)
\* Python's None where a text is expected
None == <<"None">>

\* SessionState() of app/schemas/chat.py
DefaultState ==
    [last_question |-> None, last_sql |-> None, last_result |-> None,
     last_descriptive |-> None, entity_type |-> "unknown", entities |-> <<>>,
     metric |-> "unknown"]

\* answers of the language model, opaque to the program
D_answer == <<"DESCRIPTIVE">>

D_reasoned == <<"REASONED">>

D_elaborated == <<"ELABORATED">>

D_general == <<"GENERAL">>

D_prior == <<"PRIOR">>

\* what an earlier successful turn of the conversation has stored
PriorState ==
    [last_question |-> M_total_sales,
     last_sql |-> ensure_limit(T_select_tbl, DEFAULT_LIMIT),
     last_result |-> P_rows, last_descriptive |-> D_prior,
     entity_type |-> "zone", entities |-> <<"Dhaka">>, metric |-> "volume"]

\* a stored session whose last answer is the empty text
BlankState == [PriorState EXCEPT !.last_descriptive = <<>>]

\* bool(x) testing for None only
Truthy_not_none(x) == x # None

\* bool(x) of a text or None
Truthy(x) == x # None /\ x # <<>>

\* sql_executor.invoke either returns a payload or raises
ExecOutcomes ==
    [raised : {FALSE},
     text : {P_rows, P_column_x, P_Error_timeout, P_Error_syntax_error,
             P_Error_bad_syntax, P_Error_relation, P_Error_column, P_Error_LIMIT}]
    \cup [raised : {TRUE}, text : {E_Syntax_Error, E_LIMIT, E_connection}]

\* the outcomes of the execution of the repaired query: its payload is not
\* inspected, so one payload of each kind is enough
RepairOutcomes ==
    [raised : {FALSE}, text : {P_rows, P_Error_syntax_error}]
    \cup [raised : {TRUE}, text : {E_LIMIT, E_connection}]

\* the values json.loads returns: a text, a number, null, a list of texts,
\* and the mark of a key that an object does not have
JStr(x) == [j |-> "str", s |-> x, a |-> <<>>]

JNum == [j |-> "num", s |-> "", a |-> <<>>]

JNull == [j |-> "null", s |-> "", a |-> <<>>]

JList(xs) == [j |-> "list", s |-> "", a |-> xs]

JAbsent == [j |-> "absent", s |-> "", a |-> <<>>]

\* an object with (some of) the three keys of the entity context
JObject(et, es, mt) == [j |-> "object", entity_type |-> et, entities |-> es, metric |-> mt]

\* a value that is not an object, or no value
JOther(kind) == [j |-> kind, entity_type |-> JAbsent, entities |-> JAbsent, metric |-> JAbsent]

\* the entity extractor's text, as json.loads sees it: the object the prompt
\* asks for; text that is not JSON; an object with a type outside the
\* prompt's list, entities null and no metric; a list; an object whose
\* entity_type is a number; an object whose entities is a text
ExtractorOutputs ==
    { [parses |-> TRUE,
       value |-> JObject(JStr("customer"), JList(<<"ACME">>), JStr("revenue"))],
      [parses |-> FALSE, value |-> JOther("none")],
      [parses |-> TRUE, value |-> JObject(JStr("region"), JNull, JAbsent)],
      [parses |-> TRUE, value |-> JOther("list")],
      [parses |-> TRUE, value |-> JObject(JNum, JList(<<"ACME">>), JStr("revenue"))],
      [parses |-> TRUE, value |-> JObject(JStr("customer"), JStr("ACME"), JStr("revenue"))] }

safe_json_load(js) ==
    IF js.parses THEN js.value
    ELSE JObject(JStr("unknown"), JList(<<>>), JStr("unknown"))

\* ent.get(key, default) of lines 85-87, on an object
dict_get(ent, key, default) == IF ent[key].j = "absent" THEN default ELSE ent[key]

\* `x or []` of line 86
OrEmptyList(v) ==
    IF v.j = "null" \/ (v.j = "str" /\ v.s = "") \/ (v.j = "list" /\ v.a = <<>>)
    THEN JList(<<>>) ELSE v

\* Python's None in a field that holds a TLA+ string
NoneStr == "None"

\* the arguments SessionState gets for entity_type, entities and metric, and
\* whether the call passes: ent.get needs an object, and pydantic takes a text
\* or None for Optional[str] and a list of texts for List[str]
EntityContext(ent) ==
    IF ent.j # "object"
    THEN [ok |-> FALSE, entity_type |-> "", entities |-> <<>>, metric |-> ""]
    ELSE LET et == dict_get(ent, "entity_type", JStr("unknown"))
             es == OrEmptyList(dict_get(ent, "entities", JList(<<>>)))
             mt == dict_get(ent, "metric", JStr("unknown"))
         IN  [ok |-> et.j \in {"str", "null"} /\ es.j = "list" /\ mt.j \in {"str", "null"},
              entity_type |-> IF et.j = "null" THEN NoneStr ELSE et.s,
              entities |-> es.a,
              metric |-> IF mt.j = "null" THEN NoneStr ELSE mt.s]

NoError == [kind |-> "none", detail |-> <<>>, query |-> <<>>]

NoOut == [question |-> None, query |-> None, result |-> None]

NoResponse ==
    [mode |-> "none", answer |-> None, used_question |-> None, sql |-> None,
     meta |-> <<>>]

\* texts of whole turns
TurnTexts ==
    TextsUpTo({T_select_tbl, T_select_x},
              {T_limit_5, T_sp_limit_500, T_semi, T_sp_drop, T_sp_sum,
               T_pg_cat_fix, T_alog},
              MaxTurnTokens)

FewTexts ==
    { T_select_tbl, T_select_tbl \o T_sp_drop, T_select_tbl \o T_limit_5,
      T_select_tbl \o T_pg_cat_fix }

Messages ==
    { M_hi, M_explain_more, M_total_sales, M_hi_there, M_thank_you, M_who_are_you,
      M_why_did, M_how_can, M_what_caused, M_root_cause, M_also_by_zone,
      M_hey_help_me, M_tell_me_more, M_explain_more_help_me }

\* the setting of a turn: configuration, request, stored session, and the text
\* the query generator answers with
Scenarios ==
    [allowed : {NoTables, TwoTables}, message : {M_total_sales}, debug : {FALSE},
     store : {<<>>}, text : TurnTexts]
    \cup
    [allowed : {TwoTables}, message : Messages, debug : BOOLEAN,
     store : {<<>>, <<PriorState>>, <<BlankState>>}, text : FewTexts]

VARIABLES
    pc,           \* where the turn is
    message,      \* ChatRequest.message
    debug,        \* ChatRequest.debug
    store,        \* the stored session of the conversation: <<>> or <<state>>
    store0,       \* the stored session when the turn began
    calls,        \* the collaborators invoked in the turn, with how each ended
    state,        \* what _get_state returned
    llm_sql,      \* what sql_writer.invoke answers
    sql,          \* sql of run_sql_from_question after ensure_limit
    sql_fixed,    \* sql_fixed of run_sql_from_question
    first_error,  \* str(e) of the first execution's exception
    executed,     \* the texts given to sql_executor.invoke, in order
    replies,      \* what sql_executor.invoke answered, in order
    out,          \* what run_sql_from_question returned
    desc,         \* desc of process_message
    new_state,    \* new_state of process_message
    error,        \* the exception caught by process_message
    response      \* the ChatResponse returned

turn_vars ==
    <<pc, message, debug, store, store0, calls, state, llm_sql, sql, sql_fixed,
      first_error, executed, replies, out, desc, new_state, error, response>>

VARIABLES
    redis,        \* the session keys of the Redis server: <<>> or <<JSON text>>
    turns,        \* the calls of process_message that run side by side
    last_write    \* for each session key, the call that wrote it last

sess_vars == <<redis, turns, last_write>>

vars == <<gate_vars, turn_vars, sess_vars>>

\* the conversations are not modelled (one turn or the gate is checked alone)
SessionsOff ==
    /\ redis = <<>>
    /\ turns = <<>>
    /\ last_write = <<>>

\* the turn machine is not running (the Safety Gate is checked alone)
TurnOff ==
    /\ pc = "off"
    /\ message = <<>>
    /\ debug = FALSE
    /\ store = <<>>
    /\ store0 = <<>>
    /\ calls = <<>>
    /\ state = DefaultState
    /\ llm_sql = <<>>
    /\ sql = <<>>
    /\ sql_fixed = <<>>
    /\ first_error = <<>>
    /\ executed = <<>>
    /\ replies = <<>>
    /\ out = NoOut
    /\ desc = None
    /\ new_state = DefaultState
    /\ error = NoError
    /\ response = NoResponse

\* the Safety Gate is not checked alone
GateOff ==
    /\ g_pc = "off"
    /\ g_raw = <<>>
    /\ g_sql = <<>>
    /\ g_error = "none"
    /\ g_out = <<>>
    /\ g_second = NoResult

Init ==
    /\ GateOff
    /\ SessionsOff
    /\ \E sc \in Scenarios :
          /\ allowed_tables = sc.allowed
          /\ message = sc.message
          /\ debug = sc.debug
          /\ store = sc.store
          /\ store0 = sc.store
          /\ llm_sql = sc.text
    /\ pc = "idle"
    /\ calls = <<>>
    /\ state = DefaultState
    /\ sql = <<>>
    /\ sql_fixed = <<>>
    /\ first_error = <<>>
    /\ executed = <<>>
    /\ replies = <<>>
    /\ out = NoOut
    /\ desc = None
    /\ new_state = DefaultState
    /\ error = NoError
    /\ response = NoResponse

\* one invocation of a collaborator and how it ended
Call(fn, result) == [fn |-> fn, result |-> result]

Respond(mode, answer, used_question, query, meta) ==
    [mode |-> mode, answer |-> answer, used_question |-> used_question,
     sql |-> query, meta |-> meta]

\* Start writing the session it has read back to the store
Start_writes_back ==
    /\ pc = "idle"
    /\ \E st \in (IF store = <<>> THEN {} ELSE {store[1]}) \cup {DefaultState} :
          /\ state' = st
          /\ calls' = calls
          /\ store' = <<st>>
          /\ IF _is_conversational(message)
             THEN /\ response' = Respond("conversational",
                                         <<_get_conversational_response(message)>>,
                                         None, None, <<>>)
                  /\ pc' = "done"
             ELSE /\ response' = response
                  /\ pc' = IF _is_elaboration_request(message)
                              /\ Truthy(st.last_descriptive)
                           THEN "elaborate" ELSE "run_sql"
    /\ UNCHANGED <<gate_vars, sess_vars, message, debug, store0, llm_sql, sql, sql_fixed,
                   first_error, executed, replies, out, desc, new_state, error>>

\* process_message lines 17-38: read the session, answer a conversational
\* message, or go on to elaboration or to the query path
Start ==
    /\ pc = "idle"
    /\ \E st \in (IF store = <<>> THEN {} ELSE {store[1]}) \cup {DefaultState} :
          /\ state' = st
          /\ calls' = calls
          /\ IF _is_conversational(message)
             THEN /\ response' = Respond("conversational",
                                         <<_get_conversational_response(message)>>,
                                         None, None, <<>>)
                  /\ pc' = "done"
             ELSE /\ response' = response
                  /\ pc' = IF _is_elaboration_request(message)
                              /\ Truthy(st.last_descriptive)
                           THEN "elaborate" ELSE "run_sql"
    /\ UNCHANGED <<gate_vars, sess_vars, message, debug, store, store0, llm_sql, sql, sql_fixed,
                   first_error, executed, replies, out, desc, new_state, error>>

\* Elaborate without the try/except around core.elaborate
Elaborate_unguarded ==
    /\ pc = "elaborate"
    /\ \/ /\ response' = Respond("elaboration", D_elaborated, state.last_question,
                                 None, <<>>)
          /\ calls' = Append(calls, Call("elaborate", "ok"))
          /\ pc' = "done"
       \/ /\ response' = response
          /\ calls' = Append(calls, Call("elaborate", "raised"))
          /\ pc' = "raised"
    /\ UNCHANGED <<gate_vars, sess_vars, message, debug, store, store0, state, llm_sql, sql,
                   sql_fixed, first_error, executed, replies, out, desc, new_state,
                   error>>

\* process_message lines 39-58: core.elaborate answers or raises
Elaborate ==
    /\ pc = "elaborate"
    /\ \/ /\ response' = Respond("elaboration", D_elaborated, state.last_question,
                                 None, <<>>)
          /\ calls' = Append(calls, Call("elaborate", "ok"))
          /\ pc' = "done"
       \/ /\ response' = response
          /\ calls' = Append(calls, Call("elaborate", "raised"))
          /\ pc' = "run_sql"
    /\ UNCHANGED <<gate_vars, sess_vars, message, debug, store, store0, state, llm_sql, sql, sql_fixed,
                   first_error, executed, replies, out, desc, new_state, error>>

\* run_sql_from_question lines 144-155: sql_writer.invoke answers or raises,
\* and its answer goes through the Safety Gate
GenerateSQL ==
    /\ pc = "run_sql"
    /\ \/ /\ error' = [kind |-> "generation", detail |-> <<>>, query |-> <<>>]
          /\ calls' = Append(calls, Call("sql_writer", "raised"))
          /\ sql' = sql
          /\ pc' = "fallback"
       \/ \E r \in {Gate(llm_sql, allowed_tables)} :
             /\ calls' = Append(calls, Call("sql_writer", "ok"))
             /\ IF r.error # "none"
                THEN /\ error' = [kind |-> r.error, detail |-> <<>>, query |-> r.sql]
                     /\ sql' = sql
                     /\ pc' = "fallback"
                ELSE /\ error' = error
                     /\ sql' = r.out
                     /\ pc' = "exec1"
    /\ UNCHANGED <<gate_vars, sess_vars, message, debug, store, store0, state, llm_sql, sql_fixed,
                   first_error, executed, replies, out, desc, new_state, response>>

\* run_sql_from_question lines 160-181 and 191: the first execution
Execute1 ==
    /\ pc = "exec1"
    /\ executed' = Append(executed, sql)
    /\ calls' = calls
    /\ \E o \in ExecOutcomes :
          /\ replies' = Append(replies, o)
          /\ IF ~o.raised /\ ~EncodesError(o.text)
             THEN /\ out' = [question |-> message, query |-> sql, result |-> o.text]
                  /\ pc' = "descriptive"
                  /\ UNCHANGED <<sql_fixed, first_error, error>>
             ELSE \E e_str \in {IF o.raised THEN o.text
                                ELSE SQL_ERROR_IN_RESULT \o o.text} :
                     IF IsRetryable(e_str)
                     THEN /\ sql_fixed' = RepairSql(sql)
                          /\ first_error' = e_str
                          /\ pc' = "exec2"
                          /\ UNCHANGED <<out, error>>
                     ELSE /\ error' = [kind |-> "execution", detail |-> e_str,
                                       query |-> sql]
                          /\ pc' = "fallback"
                          /\ UNCHANGED <<out, sql_fixed, first_error>>
    /\ UNCHANGED <<gate_vars, sess_vars, message, debug, store, store0, state, llm_sql, sql, desc,
                   new_state, response>>

\* Execute2 returning the original query text with the repaired query's result
Execute2_original_query ==
    /\ pc = "exec2"
    /\ executed' = Append(executed, sql_fixed)
    /\ calls' = calls
    /\ \E o \in RepairOutcomes :
          /\ replies' = Append(replies, o)
          /\ IF ~o.raised
             THEN /\ out' = [question |-> message, query |-> sql, result |-> o.text]
                  /\ pc' = "descriptive"
                  /\ error' = error
             ELSE /\ error' = [kind |-> "execution", detail |-> first_error,
                               query |-> sql]
                  /\ pc' = "fallback"
                  /\ out' = out
    /\ UNCHANGED <<gate_vars, sess_vars, message, debug, store, store0, state, llm_sql, sql,
                   sql_fixed, first_error, desc, new_state, response>>

\* Execute2 taking the error text of a failed repair as the turn's result
Execute2_swallow ==
    /\ pc = "exec2"
    /\ executed' = Append(executed, sql_fixed)
    /\ calls' = calls
    /\ \E o \in RepairOutcomes :
          /\ replies' = Append(replies, o)
          /\ out' = [question |-> message, query |-> sql_fixed, result |-> o.text]
          /\ pc' = "descriptive"
          /\ error' = error
    /\ UNCHANGED <<gate_vars, sess_vars, message, debug, store, store0, state, llm_sql, sql,
                   sql_fixed, first_error, desc, new_state, response>>

\* run_sql_from_question lines 183-191: the execution of the repaired query
Execute2 ==
    /\ pc = "exec2"
    /\ executed' = Append(executed, sql_fixed)
    /\ calls' = calls
    /\ \E o \in RepairOutcomes :
          /\ replies' = Append(replies, o)
          /\ IF ~o.raised
             THEN /\ out' = [question |-> message, query |-> sql_fixed,
                             result |-> o.text]
                  /\ pc' = "descriptive"
                  /\ error' = error
             ELSE /\ error' = [kind |-> "execution", detail |-> first_error,
                               query |-> sql]
                  /\ pc' = "fallback"
                  /\ out' = out
    /\ UNCHANGED <<gate_vars, sess_vars, message, debug, store, store0, state, llm_sql, sql, sql_fixed,
                   first_error, desc, new_state, response>>

\* process_message lines 66-70: core.descriptive answers or raises
Descriptive ==
    /\ pc = "descriptive"
    /\ \/ /\ desc' = D_answer
          /\ calls' = Append(calls, Call("descriptive", "ok"))
          /\ pc' = IF IsAnalytical(message) THEN "reasoning" ELSE "extract"
          /\ error' = error
       \/ /\ error' = [kind |-> "descriptive", detail |-> <<>>, query |-> <<>>]
          /\ calls' = Append(calls, Call("descriptive", "raised"))
          /\ pc' = "fallback"
          /\ desc' = desc
    /\ UNCHANGED <<gate_vars, sess_vars, message, debug, store, store0, state, llm_sql, sql, sql_fixed,
                   first_error, executed, replies, out, new_state, response>>

\* process_message lines 70-76: core.analyze_with_reasoning answers or one of
\* its four stages raises
Reason ==
    /\ pc = "reasoning"
    /\ \/ /\ desc' = D_reasoned
          /\ calls' = Append(calls, Call("analyze_with_reasoning", "ok"))
          /\ pc' = "extract"
          /\ error' = error
       \/ /\ error' = [kind |-> "reasoning", detail |-> <<>>, query |-> <<>>]
          /\ calls' = Append(calls, Call("analyze_with_reasoning", "raised"))
          /\ pc' = "fallback"
          /\ desc' = desc
    /\ UNCHANGED <<gate_vars, sess_vars, message, debug, store, store0, state, llm_sql, sql, sql_fixed,
                   first_error, executed, replies, out, new_state, response>>

\* Extract without safe_json_load's handler: the parse error of json.loads
\* propagates to process_message
Extract_unguarded ==
    /\ pc = "extract"
    /\ \/ \E js \in ExtractorOutputs : \E ctx \in {EntityContext(safe_json_load(js))} :
             IF js.parses /\ ctx.ok
             THEN /\ new_state' =
                        [last_question |-> out.question, last_sql |-> out.query,
                         last_result |-> out.result, last_descriptive |-> desc,
                         entity_type |-> ctx.entity_type, entities |-> ctx.entities,
                         metric |-> ctx.metric]
                  /\ calls' = Append(calls, Call("extract_entities", "parsed"))
                  /\ pc' = "save"
                  /\ error' = error
             ELSE /\ new_state' = new_state
                  /\ calls' = Append(calls, Call("extract_entities",
                                        IF js.parses THEN "unusable" ELSE "unparsable"))
                  /\ pc' = "fallback"
                  /\ error' = [kind |-> "extraction", detail |-> <<>>, query |-> <<>>]
       \/ /\ error' = [kind |-> "extraction", detail |-> <<>>, query |-> <<>>]
          /\ calls' = Append(calls, Call("extract_entities", "raised"))
          /\ pc' = "fallback"
          /\ new_state' = new_state
    /\ UNCHANGED <<gate_vars, sess_vars, message, debug, store, store0, state, llm_sql, sql,
                   sql_fixed, first_error, executed, replies, out, desc, response>>

\* process_message lines 79-89: core.extract_entities answers or raises, and
\* the new session state is built from the answer, unless the answer is not
\* an object or SessionState rejects a value
Extract ==
    /\ pc = "extract"
    /\ \/ \E js \in ExtractorOutputs : \E ctx \in {EntityContext(safe_json_load(js))} :
             IF ctx.ok
             THEN /\ new_state' =
                        [last_question |-> out.question, last_sql |-> out.query,
                         last_result |-> out.result, last_descriptive |-> desc,
                         entity_type |-> ctx.entity_type, entities |-> ctx.entities,
                         metric |-> ctx.metric]
                  /\ calls' = Append(calls, Call("extract_entities",
                                        IF js.parses THEN "parsed" ELSE "unparsable"))
                  /\ pc' = "save"
                  /\ error' = error
             ELSE /\ new_state' = new_state
                  /\ calls' = Append(calls, Call("extract_entities", "unusable"))
                  /\ pc' = "fallback"
                  /\ error' = [kind |-> "extraction", detail |-> <<>>, query |-> <<>>]
       \/ /\ error' = [kind |-> "extraction", detail |-> <<>>, query |-> <<>>]
          /\ calls' = Append(calls, Call("extract_entities", "raised"))
          /\ pc' = "fallback"
          /\ new_state' = new_state
    /\ UNCHANGED <<gate_vars, sess_vars, message, debug, store, store0, state, llm_sql, sql,
                   sql_fixed, first_error, executed, replies, out, desc, response>>

\* Save updating the session it has read instead of overwriting it: only the
\* answer and the entity context are replaced
Save_merge ==
    /\ pc = "save"
    /\ \/ /\ store' = <<[state EXCEPT !.last_descriptive = new_state.last_descriptive,
                                      !.entity_type = new_state.entity_type,
                                      !.entities = new_state.entities,
                                      !.metric = new_state.metric]>>
          /\ calls' = Append(calls, Call("setex", "ok"))
       \/ /\ store' = store
          /\ calls' = Append(calls, Call("setex", "raised"))
    /\ response' = Respond("descriptive", desc, out.question,
                           IF debug THEN out.query ELSE None,
                           <<[entity_type |-> new_state.entity_type,
                              entities |-> SubSeq(new_state.entities, 1,
                                                  Min(3, Len(new_state.entities))),
                              metric |-> new_state.metric]>>)
    /\ pc' = "done"
    /\ UNCHANGED <<gate_vars, sess_vars, message, debug, store0, state, llm_sql, sql, sql_fixed,
                   first_error, executed, replies, out, desc, new_state, error>>

\* Save without _save_state's handler: a failed write is caught by
\* process_message like any other failure
Save_unguarded ==
    /\ pc = "save"
    /\ \/ /\ store' = <<new_state>>
          /\ calls' = Append(calls, Call("setex", "ok"))
          /\ response' = Respond("descriptive", desc, out.question,
                                 IF debug THEN out.query ELSE None,
                                 <<[entity_type |-> new_state.entity_type,
                                    entities |-> SubSeq(new_state.entities, 1,
                                                        Min(3, Len(new_state.entities))),
                                    metric |-> new_state.metric]>>)
          /\ pc' = "done"
          /\ error' = error
       \/ /\ store' = store
          /\ calls' = Append(calls, Call("setex", "raised"))
          /\ response' = response
          /\ pc' = "fallback"
          /\ error' = [kind |-> "save", detail |-> <<>>, query |-> <<>>]
    /\ UNCHANGED <<gate_vars, sess_vars, message, debug, store0, state, llm_sql, sql, sql_fixed,
                   first_error, executed, replies, out, desc, new_state>>

\* process_message lines 90-104: _save_state writes the session or fails and
\* logs, and the descriptive response is returned
Save ==
    /\ pc = "save"
    /\ \/ /\ store' = <<new_state>>
          /\ calls' = Append(calls, Call("setex", "ok"))
       \/ /\ store' = store
          /\ calls' = Append(calls, Call("setex", "raised"))
    /\ response' = Respond("descriptive", desc, out.question,
                           IF debug THEN out.query ELSE None,
                           <<[entity_type |-> new_state.entity_type,
                              entities |-> SubSeq(new_state.entities, 1,
                                                  Min(3, Len(new_state.entities))),
                              metric |-> new_state.metric]>>)
    /\ pc' = "done"
    /\ UNCHANGED <<gate_vars, sess_vars, message, debug, store0, state, llm_sql, sql, sql_fixed,
                   first_error, executed, replies, out, desc, new_state, error>>

\* process_message lines 106-117: core.general_response answers, or raises and
\* the caught exception is raised again
Fallback ==
    /\ pc = "fallback"
    /\ \/ /\ response' = Respond("general", D_general, None, None, <<>>)
          /\ calls' = Append(calls, Call("general_response", "ok"))
          /\ pc' = "done"
       \/ /\ response' = response
          /\ calls' = Append(calls, Call("general_response", "raised"))
          /\ pc' = "raised"
    /\ UNCHANGED <<gate_vars, sess_vars, message, debug, store, store0, state, llm_sql, sql, sql_fixed,
                   first_error, executed, replies, out, desc, new_state, error>>

(***************************************************************************)
(* The Safety Gate alone, applied to generated texts                       *)
(***************************************************************************)
GateInit ==
    /\ \E in \in GateInputs :
          /\ allowed_tables = in[1]
          /\ g_raw = in[2]
    /\ g_pc = "input"
    /\ g_sql = <<>>
    /\ g_error = "none"
    /\ g_out = <<>>
    /\ g_second = NoResult
    /\ TurnOff
    /\ SessionsOff

\* lines 146-155 applied to the generated text
GateValidate ==
    /\ g_pc = "input"
    /\ \E r \in {Gate(g_raw, allowed_tables)} :
           /\ g_sql' = r.sql
           /\ g_error' = r.error
           /\ g_out' = r.out
           /\ g_pc' = IF r.error = "none" THEN "accepted" ELSE "rejected"
    /\ UNCHANGED <<allowed_tables, g_raw, g_second, turn_vars, sess_vars>>

\* the gate is run on its own output
GateAgain ==
    /\ g_pc = "accepted"
    /\ g_second' = Gate(g_out, allowed_tables)
    /\ g_pc' = "again"
    /\ UNCHANGED <<allowed_tables, g_raw, g_sql, g_error, g_out, turn_vars, sess_vars>>

GateNext == GateValidate \/ GateAgain

Next ==
    \/ Start
    \/ Elaborate
    \/ GenerateSQL
    \/ Execute1
    \/ Execute2
    \/ Descriptive
    \/ Reason
    \/ Extract
    \/ Save
    \/ Fallback

Spec == Init /\ [][Next]_vars

SpecGate == GateInit /\ [][GateNext]_vars

(***************************************************************************)
(* Conversations: calls of process_message that run side by side on the    *)
(* event loop and share the Redis session keys                             *)
(* app/services/chat_service.py:17-163                                     *)
(***************************************************************************)
\* the number of calls of process_message
MaxSessionTurns == 2

Turns == 1..MaxSessionTurns

\* the session_id of a request: a conversation the client names, or none
RequestSessionIds == {"s1", ""}

\* str(uuid.uuid4()) of line 22, a new identifier at every call
uuid4(t) == "uuid" \o ToString(t)

\* the session keys that can exist
SessionIds == {"s1"} \cup {uuid4(t) : t \in Turns}

\* the fields of SessionState, in the order of the class
SessionFields ==
    <<"last_question", "last_sql", "last_result", "last_descriptive",
      "entity_type", "entities", "metric">>

\* state.model_dump_json(): the fields and their values, in order
model_dump_json(st) == [i \in 1..Len(SessionFields) |-> <<SessionFields[i], st[SessionFields[i]]>>]

\* the value model_validate_json finds for a field, or the field's default
JsonField(raw, f, default) ==
    IF \E i \in DOMAIN raw : raw[i][1] = f
    THEN raw[CHOOSE i \in DOMAIN raw : raw[i][1] = f][2]
    ELSE default

\* SessionState.model_validate_json(raw)
model_validate_json(raw) ==
    [last_question |-> JsonField(raw, "last_question", DefaultState.last_question),
     last_sql |-> JsonField(raw, "last_sql", DefaultState.last_sql),
     last_result |-> JsonField(raw, "last_result", DefaultState.last_result),
     last_descriptive |-> JsonField(raw, "last_descriptive", DefaultState.last_descriptive),
     entity_type |-> JsonField(raw, "entity_type", DefaultState.entity_type),
     entities |-> JsonField(raw, "entities", DefaultState.entities),
     metric |-> JsonField(raw, "metric", DefaultState.metric)]

\* the requests of the conversations: a greeting, an elaboration request and
\* a question
SessionMessages == {M_hi, M_explain_more, M_total_sales}

\* what the collaborators of the query path answer in a call, opaque to the
\* program and different from call to call
TurnSql(t) == <<"SQL", ToString(t)>>

TurnResult(t) == <<"ROWS", ToString(t)>>

TurnAnswer(t) == <<"ANSWER", ToString(t)>>

TurnEntity(t) == "E" \o ToString(t)

\* new_state of lines 81-89 in call t
TurnNewState(t, question) ==
    [last_question |-> question, last_sql |-> TurnSql(t),
     last_result |-> TurnResult(t), last_descriptive |-> TurnAnswer(t),
     entity_type |-> "customer", entities |-> <<TurnEntity(t)>>, metric |-> "revenue"]

\* who wrote a key last: call t, nobody since the beginning, or its expiry;
\* and the mark of a call whose read of the key failed
Initial == 0

Expired == 0 - 1

Unread == 0 - 2

\* a call of process_message that has not been made yet
NoTurn ==
    [pc |-> "new", session_id |-> "", message |-> <<>>, state |-> DefaultState,
     new_state |-> DefaultState, mode |-> "none", answer |-> None,
     elaborate |-> "none", grounding |-> <<>>, read_from |-> Unread,
     saved |-> FALSE]

\* `x or ""` of lines 43 and 45
OrEmpty(x) == IF Truthy(x) THEN x ELSE <<>>

SessionsInit ==
    /\ GateOff
    /\ TurnOff
    /\ allowed_tables = TwoTables
    /\ \E raw \in {<<>>, <<model_dump_json(PriorState)>>} :
          redis = [k \in SessionIds |-> IF k = "s1" THEN raw ELSE <<>>]
    /\ turns = [t \in Turns |-> NoTurn]
    /\ last_write = [k \in SessionIds |-> Initial]

\* lines 17-38: the request comes in (calls are numbered as they come), _get_state reads the session key (a
\* failed read is logged and gives the default state) and the intent rules are
\* applied
TurnGetState(t) ==
    /\ turns[t].pc = "new"
    /\ IF t = 1 THEN TRUE ELSE turns[t - 1].pc # "new"
    /\ \E rid \in RequestSessionIds, m \in SessionMessages :
       \E sid \in {IF rid = "" THEN uuid4(t) ELSE rid} :
       \E st \in (IF redis[sid] = <<>> THEN {}
                  ELSE {model_validate_json(redis[sid][1])}) \cup {DefaultState} :
          turns' = [turns EXCEPT ![t] =
              [@ EXCEPT !.session_id = sid, !.message = m, !.state = st,
                        !.read_from = IF st = DefaultState /\ redis[sid] # <<>>
                                      THEN Unread ELSE last_write[sid],
                        !.pc = IF _is_conversational(m) THEN "done"
                               ELSE IF _is_elaboration_request(m)
                                       /\ Truthy(st.last_descriptive)
                                    THEN "elaborate" ELSE "query",
                        !.mode = IF _is_conversational(m) THEN "conversational"
                                 ELSE "none",
                        !.answer = IF _is_conversational(m)
                                   THEN <<_get_conversational_response(m)>>
                                   ELSE None]]
    /\ UNCHANGED <<gate_vars, turn_vars, redis, last_write>>

\* TurnElaborate writing the elaborated answer to the session
TurnElaborate_saves(t) ==
    /\ turns[t].pc = "elaborate"
    /\ \/ /\ turns' = [turns EXCEPT ![t] =
                [@ EXCEPT !.pc = "done", !.mode = "elaboration",
                          !.answer = D_elaborated, !.elaborate = "ok",
                          !.saved = TRUE,
                          !.grounding = <<OrEmpty(turns[t].state.last_question),
                                          turns[t].state.last_descriptive,
                                          OrEmpty(turns[t].state.last_result)>>]]
          /\ redis' = [redis EXCEPT ![turns[t].session_id] =
                <<model_dump_json([turns[t].state EXCEPT
                                      !.last_descriptive = D_elaborated])>>]
          /\ last_write' = [last_write EXCEPT ![turns[t].session_id] = t]
       \/ /\ turns' = [turns EXCEPT ![t] =
                [@ EXCEPT !.pc = "query", !.elaborate = "raised"]]
          /\ UNCHANGED <<redis, last_write>>
    /\ UNCHANGED <<gate_vars, turn_vars>>

\* lines 38-58: core.elaborate answers from the state that was read, or
\* raises and the call goes on to the query path
TurnElaborate(t) ==
    /\ turns[t].pc = "elaborate"
    /\ \/ turns' = [turns EXCEPT ![t] =
             [@ EXCEPT !.pc = "done", !.mode = "elaboration",
                       !.answer = D_elaborated, !.elaborate = "ok",
                       !.grounding = <<OrEmpty(turns[t].state.last_question),
                                       turns[t].state.last_descriptive,
                                       OrEmpty(turns[t].state.last_result)>>]]
       \/ turns' = [turns EXCEPT ![t] =
             [@ EXCEPT !.pc = "query", !.elaborate = "raised"]]
    /\ UNCHANGED <<gate_vars, turn_vars, redis, last_write>>

\* lines 61-89: the query path up to the new state, which touches no session
\* key (its steps are those of Spec), succeeds or raises
TurnQuery(t) ==
    /\ turns[t].pc = "query"
    /\ \/ turns' = [turns EXCEPT ![t] =
             [@ EXCEPT !.pc = "save",
                       !.new_state = TurnNewState(t, turns[t].message)]]
       \/ turns' = [turns EXCEPT ![t] = [@ EXCEPT !.pc = "fallback"]]
    /\ UNCHANGED <<gate_vars, turn_vars, redis, last_write>>

\* TurnSaveState updating the fields of the key one by one: the content
\* fields in a first write, the entity context in a second one
TurnSaveState_by_field(t) ==
    \/ /\ turns[t].pc = "save"
       /\ \E cur \in {IF redis[turns[t].session_id] = <<>> THEN DefaultState
                      ELSE model_validate_json(redis[turns[t].session_id][1])} :
             redis' = [redis EXCEPT ![turns[t].session_id] =
                <<model_dump_json(
                     [cur EXCEPT !.last_question = turns[t].new_state.last_question,
                                 !.last_sql = turns[t].new_state.last_sql,
                                 !.last_result = turns[t].new_state.last_result,
                                 !.last_descriptive =
                                     turns[t].new_state.last_descriptive])>>]
       /\ turns' = [turns EXCEPT ![t] = [@ EXCEPT !.pc = "save2"]]
       /\ last_write' = last_write
       /\ UNCHANGED <<gate_vars, turn_vars>>
    \/ /\ turns[t].pc = "save2"
       /\ \E cur \in {IF redis[turns[t].session_id] = <<>> THEN DefaultState
                      ELSE model_validate_json(redis[turns[t].session_id][1])} :
             redis' = [redis EXCEPT ![turns[t].session_id] =
                <<model_dump_json(
                     [cur EXCEPT !.entity_type = turns[t].new_state.entity_type,
                                 !.entities = turns[t].new_state.entities,
                                 !.metric = turns[t].new_state.metric])>>]
       /\ turns' = [turns EXCEPT ![t] =
             [@ EXCEPT !.pc = "done", !.mode = "descriptive", !.saved = TRUE,
                       !.answer = turns[t].new_state.last_descriptive]]
       /\ last_write' = [last_write EXCEPT ![turns[t].session_id] = t]
       /\ UNCHANGED <<gate_vars, turn_vars>>

\* lines 90-104 and 155-163: one setex of the whole new state, which succeeds
\* or fails and is logged, and the descriptive response
TurnSaveState(t) ==
    /\ turns[t].pc = "save"
    /\ \E ok \in BOOLEAN :
          /\ redis' = IF ok THEN [redis EXCEPT ![turns[t].session_id] =
                                    <<model_dump_json(turns[t].new_state)>>]
                       ELSE redis
          /\ last_write' = IF ok THEN [last_write EXCEPT ![turns[t].session_id] = t]
                            ELSE last_write
          /\ turns' = [turns EXCEPT ![t] =
                [@ EXCEPT !.pc = "done", !.mode = "descriptive", !.saved = ok,
                          !.answer = turns[t].new_state.last_descriptive]]
    /\ UNCHANGED <<gate_vars, turn_vars>>

\* lines 106-117: the general fallback answers or raises
TurnFallback(t) ==
    /\ turns[t].pc = "fallback"
    /\ \/ turns' = [turns EXCEPT ![t] =
             [@ EXCEPT !.pc = "done", !.mode = "general", !.answer = D_general]]
       \/ turns' = [turns EXCEPT ![t] = [@ EXCEPT !.pc = "raised"]]
    /\ UNCHANGED <<gate_vars, turn_vars, redis, last_write>>

\* the time to live of a key, set by setex at line 158, runs out
KeyExpires(k) ==
    /\ redis[k] # <<>>
    /\ redis' = [redis EXCEPT ![k] = <<>>]
    /\ last_write' = [last_write EXCEPT ![k] = Expired]
    /\ UNCHANGED <<gate_vars, turn_vars, turns>>

SessionsNext ==
    \/ \E t \in Turns : TurnGetState(t)
    \/ \E t \in Turns : TurnElaborate(t)
    \/ \E t \in Turns : TurnQuery(t)
    \/ \E t \in Turns : TurnSaveState(t)
    \/ \E t \in Turns : TurnFallback(t)
    \/ \E k \in SessionIds : KeyExpires(k)

SpecSessions == SessionsInit /\ [][SessionsNext]_vars


(***************************************************************************)
(* Claims                                                                  *)
(***************************************************************************)
\* the select-only check and the allow-list check, both, on one text
PassesChecks(q) == is_select_only(q) /\ enforce_allowlist(q, allowed_tables)

\* C1: every query text handed to the data-store executor in a turn, the
\* first attempt and the repair attempt alike, passes the select-only check
\* and the allow-list and blocked-schema check.
C1_ExecutedPassChecks ==
    \A i \in DOMAIN executed : PassesChecks(executed[i])

\* C2: a candidate query that contains one of the nine forbidden verbs as a
\* whole word, in any letter case and with any white space around it, is
\* rejected as unsafe and no statement comes out of the gate.
C2_ForbiddenVerbRejected ==
    (g_pc # "input" /\ \E verb \in FORBIDDEN_SQL : HasWholeWord(g_sql, verb))
        => (g_pc = "rejected" /\ g_error = "unsafe" /\ g_out = <<>>)

\* a statement that opens with select, holds UPDATE in mixed case after white
\* space, and has no semicolon, has been rejected as unsafe
C2_Witness ==
    /\ g_pc = "rejected" /\ g_error = "unsafe"
    /\ StartsWith(Lower(g_sql), W_SELECT)
    /\ HasWholeWord(g_sql, W_UPDATE) /\ ~Contains(g_sql, W_UPDATE)
    /\ ~Contains(g_sql, <<";">>)

\* the candidate query with ONE trailing semicolon, if there is one, removed
C3_OneDropped ==
    LET s == Strip(g_sql)
    IN  IF EndsWith(s, <<";">>) THEN SubSeq(s, 1, Len(s) - 1) ELSE s

\* the candidate query is acceptable but for its semicolons
C3_OtherwiseFine ==
    /\ StartsWith(Lower(Strip(g_sql)), W_SELECT)
    /\ \A verb \in FORBIDDEN_SQL : ~HasWholeWord(g_sql, verb)

\* C3 as stated: with only ONE optional trailing semicolon ignored, a text
\* that still holds a semicolon is rejected as unsafe, and a single statement
\* with at most one trailing semicolon is not rejected on this ground.
C3_OneTrailingSemicolonIgnored ==
    g_pc # "input" =>
        /\ Contains(C3_OneDropped, <<";">>) => g_error = "unsafe"
        /\ (C3_OtherwiseFine /\ ~Contains(C3_OneDropped, <<";">>))
              => g_error # "unsafe"

\* a semicolon of the trimmed candidate query is followed, somewhere, by a
\* character that is not a semicolon
C3_SemicolonInside ==
    LET s == Strip(g_sql)
    IN  \E i \in 1..Len(s) : \E j \in (i + 1)..Len(s) : s[i] = ";" /\ s[j] # ";"

\* C3 as amended: the whole run of trailing semicolons is ignored. A text in
\* which a semicolon is followed by anything but semicolons is rejected as
\* unsafe, and a statement followed only by semicolons is not rejected on
\* this ground.
C3_TrailingSemicolonsIgnored ==
    g_pc # "input" =>
        /\ C3_SemicolonInside => g_error = "unsafe"
        /\ (C3_OtherwiseFine /\ ~C3_SemicolonInside) => g_error # "unsafe"

\* a statement followed by two semicolons has been accepted
C3_Witness ==
    /\ g_pc = "accepted"
    /\ EndsWith(g_sql, <<";", ";">>)
    /\ ~C3_SemicolonInside

\* sql names the schema or table name, in any letter case
C4_References(sql_text, name) ==
    \E i \in 1..(Len(sql_text) - Len(name) + 1) :
        Lower(SubSeq(sql_text, i, i + Len(name) - 1)) = Lower(name)

C4_Blocked == \E schema \in BLOCKED_SCHEMAS : C4_References(g_sql, schema)

C4_NoAllowedTable ==
    \A k \in DOMAIN allowed_tables : ~C4_References(g_sql, allowed_tables[k])

\* C4 as stated: under every allow-list, the empty one included, a statement
\* that references a blocked schema is rejected, and so is a statement that
\* references none of the allow-listed tables.
C4_AnyAllowList ==
    g_pc # "input" =>
        /\ C4_Blocked => g_error # "none"
        /\ C4_NoAllowedTable => g_error # "none"

\* C4 as amended: a statement that references a blocked schema is rejected
\* under every allow-list; a statement that references none of the
\* allow-listed tables is rejected when the allow-list is not empty; under
\* the empty allow-list the table check is not applied, and a select-only
\* statement is then rejected only for a blocked schema.
C4_NonEmptyAllowList ==
    g_pc # "input" =>
        /\ C4_Blocked => g_error # "none"
        /\ (allowed_tables # <<>> /\ C4_NoAllowedTable) => g_error # "none"
        /\ (is_select_only(g_sql) /\ ~C4_Blocked
              /\ (allowed_tables = <<>> \/ ~C4_NoAllowedTable))
              => g_error = "none"

\* under an allow-list that names Dim, a statement that names only dim has
\* been accepted
C4_Witness ==
    /\ g_pc = "accepted"
    /\ allowed_tables = TwoTables
    /\ Contains(g_sql, T_dim) /\ ~C4_References(g_sql, T_tbl)

\* the values of the LIMIT n clauses of a statement
C5_LimitValues(sql_text) ==
    { IntOf(LimitMatchDigits(sql_text, i), 0) :
        i \in { k \in 1..Len(sql_text) : LimitMatchEnd(sql_text, k) > 0 } }

\* the value of the first LIMIT n clause of a statement that has one
C5_Requested(sql_text) == IntOf(LimitMatchDigits(sql_text, FirstLimit(sql_text)), 0)

\* the statement with every LIMIT n clause replaced by the bare word LIMIT
C5_Outside(sql_text) == SubLimit(sql_text, 1, W_LIMIT)

\* the normalized statement enforces LIMIT min(n, default) and is otherwise
\* the statement it was made from
C5_Capped ==
    /\ C5_LimitValues(g_out) = { Min(C5_Requested(g_sql), DEFAULT_LIMIT) }
    /\ C5_Outside(g_out) = C5_Outside(g_sql)

\* C5 as stated: every accepted statement that already has a LIMIT n clause,
\* with or without an aggregate function, is normalized to LIMIT
\* min(n, default).
C5_ExistingLimitCapped ==
    (g_pc = "accepted" /\ HasLimit(g_sql)) => C5_Capped

\* C5 as amended: an accepted statement that already has a LIMIT n clause
\* and calls no aggregate function is normalized to LIMIT min(n, default),
\* in every LIMIT clause it has, n being the value of the first one; a
\* statement that calls an aggregate function is returned unchanged, whatever
\* limit it requests.
C5_ExistingLimitCappedUnlessAggregate ==
    (g_pc = "accepted" /\ HasLimit(g_sql)) =>
        IF HasAggregate(g_sql) THEN g_out = g_sql ELSE C5_Capped

\* a statement that requests LIMIT 500 and calls no aggregate function has
\* been normalized to LIMIT 200
C5_Witness ==
    /\ g_pc = "accepted"
    /\ HasLimit(g_sql) /\ ~HasAggregate(g_sql)
    /\ C5_Requested(g_sql) = 500
    /\ Contains(g_out, LIMIT_PREFIX \o IntToStr(DEFAULT_LIMIT))
    /\ ~Contains(g_out, IntToStr(500))

\* the text ends with a semicolon
C6_EndsWithSemicolon(sql_text) == EndsWith(sql_text, <<";">>)

\* C6: an accepted statement with no LIMIT clause that calls no aggregate
\* function is returned with its trailing semicolons removed and a new line
\* LIMIT <default> appended; one that calls an aggregate function is returned
\* unchanged, with no LIMIT.
C6_DefaultLimitAppended ==
    (g_pc = "accepted" /\ ~HasLimit(g_sql)) =>
        IF HasAggregate(g_sql)
        THEN g_out = g_sql /\ ~HasLimit(g_out)
        ELSE LET tail == <<"\n">> \o LIMIT_PREFIX \o IntToStr(DEFAULT_LIMIT)
                 body == SubSeq(g_out, 1, Len(g_out) - Len(tail))
             IN  /\ EndsWith(g_out, tail)
                 /\ ~C6_EndsWithSemicolon(body)
                 /\ StartsWith(g_sql, body)
                 /\ \A i \in (Len(body) + 1)..Len(g_sql) : g_sql[i] = ";"
                 /\ C5_LimitValues(g_out) = {DEFAULT_LIMIT}

\* a statement with one trailing semicolon, no LIMIT clause and no aggregate
\* call has been given the default limit
C6_Witness ==
    /\ g_pc = "accepted"
    /\ ~HasLimit(g_sql) /\ ~HasAggregate(g_sql)
    /\ C6_EndsWithSemicolon(g_sql)
    /\ EndsWith(g_out, IntToStr(DEFAULT_LIMIT))

\* C7: the gate is idempotent: run on its own output, it accepts it and
\* returns it unchanged.
C7_GateIdempotent ==
    g_pc = "again" => (g_second.error = "none" /\ g_second.out = g_out)

\* the Safety Gate rejects the text the query generator has answered with
C8_GateRejects == ~PassesChecks(extract_sql(llm_sql))

\* the query generator has answered, so the gate has been applied
C8_GateApplied ==
    /\ pc \notin {"idle", "elaborate", "run_sql"}
    /\ response.mode \notin {"conversational", "elaboration"}
    /\ error.kind # "generation"

\* C8: when the Safety Gate rejects the generated text, nothing is repaired
\* and the data store is not invoked in that turn; the turn goes to the
\* general fallback, and the response it returns has mode general.
C8_RejectionIsFinal ==
    (C8_GateApplied /\ C8_GateRejects) =>
        /\ error.kind \in {"unsafe", "schema"}
        /\ executed = <<>> /\ replies = <<>>
        /\ sql = <<>> /\ sql_fixed = <<>>
        /\ pc \in {"fallback", "done", "raised"}
        /\ pc = "done" => response.mode = "general"
        /\ pc # "done" => response = NoResponse

\* a statement that references no allow-listed table has been answered by
\* the general fallback, with no execution
C8_Witness ==
    /\ pc = "done"
    /\ is_select_only(extract_sql(llm_sql))
    /\ ~enforce_allowlist(extract_sql(llm_sql), allowed_tables)
    /\ response.mode = "general"
    /\ executed = <<>>

\* the text names the marker, in any letter case
C9_Has(text, marker) == Contains(Lower(text), marker)

\* the first execution has returned, without raising, a payload that holds
\* 'error' and one of the four markers
C9_PayloadEncodesError ==
    /\ Len(replies) >= 1
    /\ ~replies[1].raised
    /\ C9_Has(replies[1].text, W_ERROR)
    /\ \E marker \in {W_SYNTAX, W_RELATION, W_COLUMN, W_LIMIT} :
          C9_Has(replies[1].text, marker)

\* the repair attempt is under way or has been made
C9_RepairAttempted ==
    /\ sql_fixed # <<>>
    /\ \/ pc = "exec2" /\ Len(executed) = 1
       \/ Len(executed) = 2 /\ executed[2] = sql_fixed

C10_ClauseEnd(s, i) ==
    LET a == LeadRun(s, i, SpaceChars)
        b == LeadRun(s, a + Len(W_LIMIT), SpaceChars)
        c == LeadRun(s, b, DigitSet)
    IN  IF OccursAt(Lower(s), W_LIMIT, a) /\ b > a + Len(W_LIMIT) /\ c > b
        THEN c ELSE 0

\* the statement with every LIMIT n clause stripped
RECURSIVE C10_StripLimitClauses(_, _)
C10_StripLimitClauses(s, i) ==
    IF i > Len(s) THEN <<>>
    ELSE IF C10_ClauseEnd(s, i) > 0
         THEN C10_StripLimitClauses(s, C10_ClauseEnd(s, i))
         ELSE <<s[i]>> \o C10_StripLimitClauses(s, i + 1)

\* C10: the data store is invoked at most twice in a turn; a second
\* invocation happens only after a retryable error of the first, and it
\* executes the validated query with every LIMIT n clause stripped and the
\* limit enforcement applied again.
C10_RepairStripsLimit ==
    /\ Len(executed) <= 2
    /\ Len(executed) = 2 =>
          /\ executed[1] = sql
          /\ replies[1].raised \/ EncodesError(replies[1].text)
          /\ executed[2] =
                ensure_limit(C10_StripLimitClauses(sql, 1), DEFAULT_LIMIT)

\* the collaborator fn has been invoked in the turn
Called(fn) == \E i \in DOMAIN calls : calls[i].fn = fn

\* the collaborator fn has been invoked in the turn and ended with result
CalledWith(fn, result) == \E i \in DOMAIN calls : calls[i] = Call(fn, result)

\* the turn has returned a response of this mode
Returned(mode) == pc = "done" /\ response.mode = mode

\* the first execution failed with a retryable error and the repaired query
\* has been executed without raising
C11_RepairSucceeded == Len(replies) = 2 /\ ~replies[2].raised

\* C11: when the repaired query succeeds after a retryable error, the query
\* path succeeds with the repaired query as its query and that execution's
\* payload as its result; the turn fails only if a later collaborator
\* raises, and a descriptive response carries the repaired query in its
\* debug field (only when the debug flag is set) and stores it as the
\* session's last query.
C11_RepairedQueryReported ==
    C11_RepairSucceeded =>
        /\ error.kind # "execution"
        /\ out = [question |-> message, query |-> executed[2],
                  result |-> replies[2].text]
        /\ executed[2] = sql_fixed
        /\ (pc \in {"fallback", "raised"} \/ Returned("general"))
              => error.kind \in {"descriptive", "reasoning", "extraction"}
        /\ pc = "done" => response.mode \in {"descriptive", "general"}
        /\ Returned("descriptive") =>
              /\ response.sql = IF debug THEN executed[2] ELSE None
              /\ new_state.last_sql = executed[2]
              /\ CalledWith("setex", "ok") => store = <<new_state>>

\* a turn with the debug flag set has returned the repaired query, which
\* differs from the query that failed, and has stored it
C11_Witness ==
    /\ C11_RepairSucceeded
    /\ Returned("descriptive")
    /\ debug
    /\ executed[2] # executed[1]
    /\ response.sql = executed[2]
    /\ store # <<>> /\ store[1].last_sql = executed[2]

\* the first execution failed with a retryable error and the execution of
\* the repaired query raised
C12_BothFailed == Len(replies) = 2 /\ replies[2].raised

C13_StaticAnswers == { <<"greeting">>, <<"welcome">>, <<"identity">>, <<"here_to_help">> }

\* C13: a turn classified conversational returns at once an answer of the
\* static rule table, with mode conversational: no collaborator has been
\* invoked, no query has been generated or executed, and the stored session
\* is what it was before the turn.
C13_ConversationalTouchesNothing ==
    (pc # "idle" /\ _is_conversational(message)) =>
        /\ pc = "done"
        /\ response.mode = "conversational"
        /\ response.answer \in C13_StaticAnswers
        /\ response.used_question = None /\ response.sql = None
        /\ calls = <<>>
        /\ executed = <<>> /\ sql = <<>> /\ out = NoOut
        /\ store = store0

\* a message of thanks has been answered from the table in a conversation
\* that has a stored session
C13_Witness ==
    /\ Returned("conversational")
    /\ message = M_thank_you
    /\ response.answer = <<"welcome">>
    /\ store0 = <<PriorState>>

\* the greeting words of the conversational rule
C14_Greetings == { W_HI, W_HELLO, W_HEY, W_GOOD_MORNING, W_GREETINGS }

\* the message is a greeting word followed by a space and further words
C14_GreetingThenWords ==
    LET msg == Lower(Strip(message))
    IN  \E g \in C14_Greetings :
            /\ StartsWith(msg, g \o <<" ">>)
            /\ \E i \in (Len(g) + 2)..Len(msg) : IsWordChar(msg[i])

\* the message is a greeting word followed by nothing but white space,
\* exclamation marks and full stops
C14_BareGreeting ==
    LET msg == Lower(Strip(message))
    IN  \E g \in C14_Greetings :
            /\ StartsWith(msg, g)
            /\ \A i \in (Len(g) + 1)..Len(msg) : msg[i] \in {" ", "\n", "\t", "!", "."}

\* the message holds one of the two phrases about the assistant itself
C14_AboutAssistant ==
    \/ Contains(Lower(message), W_WHO_ARE_YOU)
    \/ Contains(Lower(message), W_HELP_ME)

\* C14 as stated: a greeting followed by further words, such as "hi there",
\* is classified conversational: the turn returns mode conversational and
\* the query path is never invoked.
C14_GreetingThenWordsConversational ==
    (pc # "idle" /\ C14_GreetingThenWords) =>
        /\ Returned("conversational")
        /\ ~Called("sql_writer")

\* C14 as amended: a greeting followed by nothing but white space, '!' and
\* '.' is classified conversational and never reaches the query path; a
\* greeting followed by further words, such as "hi there", is not, unless it
\* holds 'who are you' or 'help me': it goes on to the query path.
C14_BareGreetingConversational ==
    pc # "idle" =>
        /\ C14_BareGreeting =>
              (Returned("conversational") /\ ~Called("sql_writer"))
        /\ (C14_GreetingThenWords /\ C14_AboutAssistant) =>
              (Returned("conversational") /\ ~Called("sql_writer"))
        /\ (C14_GreetingThenWords /\ ~C14_AboutAssistant) =>
              /\ response.mode # "conversational"
              /\ pc = "run_sql" \/ Called("sql_writer")

\* "hi there" has gone to the query path and the turn has returned
C14_Witness ==
    /\ message = M_hi_there
    /\ pc = "done"
    /\ CalledWith("sql_writer", "ok")
    /\ response.mode \in {"descriptive", "general"}

\* the session read at the start of the turn has a last answer
C15_HasLastAnswer == state.last_descriptive # None /\ state.last_descriptive # <<>>

\* the turn is past the intent rules with an elaboration-pattern message
\* and no last answer
C15_ElaborationWithoutAnswer ==
    /\ pc # "idle"
    /\ ~_is_conversational(message)
    /\ _is_elaboration_request(message)
    /\ ~C15_HasLastAnswer

\* the message goes to the query path as it is, not as an elaboration
C15_ToQueryPath ==
    /\ ~Called("elaborate")
    /\ pc # "elaborate"
    /\ response.mode # "elaboration"
    /\ pc = "run_sql" \/ Called("sql_writer")
    /\ out # NoOut => out.question = message

\* C15 as stated: an elaboration-pattern message with no last answer is not
\* handled as elaboration and proceeds to the query path as a plain lookup,
\* the intent that gets no special handling.
C15_FallsToPlainLookup ==
    C15_ElaborationWithoutAnswer =>
        /\ C15_ToQueryPath
        /\ pc # "reasoning" /\ ~Called("analyze_with_reasoning")

\* C15 as amended: an elaboration-pattern message with no last answer is not
\* handled as elaboration and proceeds to the query path with the raw
\* message as the question; there it is a plain lookup unless it holds one
\* of the words why, how, explain, cause, in which case the analytical rule
\* applies to it and the reasoning pipeline runs after a successful query.
C15_FallsToQueryPath ==
    C15_ElaborationWithoutAnswer =>
        /\ C15_ToQueryPath
        /\ (pc = "reasoning" \/ Called("analyze_with_reasoning")) =>
              \E w \in {W_WHY, W_HOW, W_EXPLAIN, W_CAUSE} :
                  HasWholeWord(Lower(message), w)
        /\ (Called("extract_entities") /\ ~Called("analyze_with_reasoning")) =>
              ~\E w \in {W_WHY, W_HOW, W_EXPLAIN, W_CAUSE} :
                  HasWholeWord(Lower(message), w)

\* "Tell me more", in a conversation whose stored last answer is the empty
\* text, has been answered by the query path
C15_Witness ==
    /\ message = M_tell_me_more
    /\ store0 = <<BlankState>> /\ state = BlankState
    /\ Returned("descriptive")
    /\ response.used_question = message

\* C16: when the elaboration collaborator fails, the failure is not
\* surfaced: the turn goes on to the query path with the raw message as the
\* question, and a response it returns is descriptive or general; the turn
\* raises only if the query path and then the general fallback fail too.
C16_ElaborationFailureFallsThrough ==
    CalledWith("elaborate", "raised") =>
        /\ pc # "elaborate"
        /\ response.mode # "elaboration"
        /\ pc = "run_sql" \/ Called("sql_writer")
        /\ out # NoOut => out.question = message
        /\ pc = "done" => response.mode \in {"descriptive", "general"}
        /\ pc = "raised" =>
              (error.kind # "none" /\ CalledWith("general_response", "raised"))

\* the elaboration collaborator failed and the query path has answered
C16_Witness ==
    /\ CalledWith("elaborate", "raised")
    /\ Returned("descriptive")
    /\ response.used_question = message
    /\ state = PriorState

\* the standalone question a follow-up rewriting would produce, opaque to
\* the program
C17_Rewritten == <<"STANDALONE">>

\* the message is a contextual continuation of a stored question
C17_IsFollowup == Truthy(state.last_question) /\ looks_like_followup(message)

\* C17: once the query path has a question, a contextual-continuation
\* message in a session that has a prior question has first been rewritten
\* by the contextualizing collaborator, and the rewritten question, not the
\* raw message, is the question of the query path and the stored
\* last_question; any other message is used verbatim.
C17_FollowupRewritten ==
    out # NoOut =>
        IF C17_IsFollowup
        THEN /\ Called("contextualize")
             /\ out.question = C17_Rewritten
             /\ Called("extract_entities") =>
                   new_state.last_question \in {None, C17_Rewritten}
        ELSE out.question = message

\* the message holds one of the causal or explanatory patterns: why did,
\* how can, what caused, root cause
C18_NamedPattern ==
    LET msg == Lower(message)
    IN  \/ Contains(msg, W_WHY \o <<" ", "d", "i", "d", " ">>)
        \/ Contains(msg, W_HOW \o <<" ", "c", "a", "n", " ">>)
        \/ Contains(msg, <<"w", "h", "a", "t", " ">> \o W_CAUSE \o <<"d", " ">>)
        \/ Contains(msg, <<"r", "o", "o", "t", " ">> \o W_CAUSE)

\* C18: a message holding one of the named causal patterns, whose query
\* executed and was described, goes through the reasoning pipeline, and a
\* descriptive response to it carries the folded reasoning text.
C18_NamedPatternsReasoned ==
    (C18_NamedPattern /\ CalledWith("descriptive", "ok")) =>
        /\ pc = "reasoning" \/ Called("analyze_with_reasoning")
        /\ Returned("descriptive") => response.answer = D_reasoned

\* C19: when a stage of the reasoning pipeline fails after a successful
\* query, the turn goes on to entity extraction with the base answer, and
\* unless extraction raises it returns mode descriptive with the base
\* descriptive answer and writes the session with that answer.
C19_ReasoningFailureKeepsBaseAnswer ==
    CalledWith("analyze_with_reasoning", "raised") =>
        /\ pc = "extract" \/ Called("extract_entities")
        /\ desc = D_answer
        /\ (pc = "done" /\ ~CalledWith("extract_entities", "raised")) =>
              /\ response.mode = "descriptive"
              /\ response.answer = D_answer
              /\ Called("setex")
              /\ new_state.last_descriptive = D_answer

\* the default entity context
C20_Defaults == [entity_type |-> "unknown", entities |-> <<>>, metric |-> "unknown"]

\* C20: when the extractor's output does not parse, the turn does not
\* fail: the new session state holds the default entity context, the turn
\* goes on to the write and returns mode descriptive with the default
\* context in its metadata, and a write that succeeds stores that state.
C20_UnparsableEntitiesDefault ==
    CalledWith("extract_entities", "unparsable") =>
        /\ pc \in {"save", "done"}
        /\ ~Called("general_response")
        /\ new_state.entity_type = "unknown"
        /\ new_state.entities = <<>>
        /\ new_state.metric = "unknown"
        /\ new_state.last_question = out.question
        /\ new_state.last_descriptive = desc
        /\ pc = "done" =>
              /\ response.mode = "descriptive"
              /\ response.answer = desc
              /\ response.meta = <<C20_Defaults>>
              /\ CalledWith("setex", "ok") => store = <<new_state>>
              /\ CalledWith("setex", "raised") => store = store0

\* the extractor's output did not parse, the turn has answered and the
\* session holds the default entity context in place of the stored one
C20_Witness ==
    /\ CalledWith("extract_entities", "unparsable")
    /\ Returned("descriptive")
    /\ CalledWith("setex", "ok")
    /\ store0 = <<PriorState>> /\ state = PriorState
    /\ store[1].entity_type = "unknown" /\ store[1].entities = <<>>
    /\ store[1].metric = "unknown"
    /\ store[1].last_question = message

\* the stored session holds the four content fields of this turn, and its
\* last answer is the answer of the response
C21_StoredFromThisTurn ==
    /\ store # <<>>
    /\ store[1].last_question = out.question
    /\ store[1].last_sql = out.query
    /\ store[1].last_result = out.result
    /\ store[1].last_descriptive = response.answer
    /\ store[1].last_question = message

\* C21 as stated: after any turn that returns mode descriptive the store
\* holds the last question, query, result and answer of that same turn.
C21_DescriptiveTurnStored == Returned("descriptive") => C21_StoredFromThisTurn

\* C21 as amended: a turn that returns mode descriptive has attempted one
\* write of the whole new state; when the write succeeded the store holds
\* exactly that state, whose four content fields are of this turn, and when
\* it failed the store is what it was before the turn, never a mixture.
C21_DescriptiveTurnStoredIfWritten ==
    Returned("descriptive") =>
        /\ Called("setex")
        /\ CalledWith("setex", "ok") =>
              (C21_StoredFromThisTurn /\ store = <<new_state>>)
        /\ CalledWith("setex", "raised") => store = store0

\* a descriptive turn has replaced the stored session of an earlier turn
C21_Witness ==
    /\ Returned("descriptive")
    /\ CalledWith("setex", "ok")
    /\ store0 = <<PriorState>>
    /\ C21_StoredFromThisTurn
    /\ store[1].last_question # PriorState.last_question
    /\ store[1].last_descriptive # PriorState.last_descriptive

\* the complete states that calls on conversation k have written
C22_WrittenStates(k) ==
    { turns[t].new_state :
        t \in {u \in Turns : turns[u].session_id = k /\ turns[u].saved} }

\* what key k held in the beginning
C22_InitialContent(k) ==
    IF k = "s1" THEN {<<>>, <<model_dump_json(PriorState)>>} ELSE {<<>>}

\* C22: under every interleaving of calls, two calls on the same
\* conversation included, every session key is empty or holds the complete
\* state that one call wrote (or the one it held from the beginning), and that
\* call is the one whose write came last: the key never holds fields of two
\* calls.
C22_StoredStateFromOneTurn ==
    \A k \in SessionIds :
        /\ redis[k] = <<>>
           \/ redis[k] \in C22_InitialContent(k)
           \/ \E s \in C22_WrittenStates(k) :
                 /\ redis[k] = <<model_dump_json(s)>>
                 /\ model_validate_json(redis[k][1]) = s
        /\ last_write[k] = Expired => redis[k] = <<>>
        /\ last_write[k] = Initial => redis[k] \in C22_InitialContent(k)
        /\ last_write[k] \in Turns =>
              /\ turns[last_write[k]].saved
              /\ turns[last_write[k]].session_id = k
              /\ redis[k] = <<model_dump_json(turns[last_write[k]].new_state)>>

\* two calls on the same conversation ran side by side on the query path,
\* both wrote, and the key holds the state of the call that came in first,
\* whose write came last
C22_Witness ==
    /\ turns[1].session_id = "s1" /\ turns[2].session_id = "s1"
    /\ turns[1].saved /\ turns[2].saved
    /\ turns[1].read_from = Initial /\ turns[2].read_from = Initial
    /\ last_write["s1"] = 1
    /\ redis["s1"] = <<model_dump_json(turns[1].new_state)>>
    /\ turns[1].new_state # turns[2].new_state

\* the number of collaborator calls of the turn that raised or gave an
\* answer the turn could not use
C23_RaisedCalls ==
    Cardinality({i \in DOMAIN calls : calls[i].result \in {"raised", "unusable"}})

\* the number of stages that failed in the turn: the state read, the
\* collaborator calls, the Safety Gate and the execution
C23_Failures ==
    C23_RaisedCalls
    + (IF pc # "idle" /\ store0 # <<>> /\ state # store0[1] THEN 1 ELSE 0)
    + (IF error.kind \in {"unsafe", "schema", "execution"} THEN 1 ELSE 0)

\* C23: a turn raises only when a stage of the structured query path has
\* failed and the general fallback responder has failed too; a turn that has
\* ended with at most one failed stage, the state read and the state save
\* included, has returned a response.
C23_ErrorOnlyWhenFallbackFails ==
    /\ pc = "raised" =>
          /\ error.kind \in {"generation", "unsafe", "schema", "execution",
                             "descriptive", "reasoning", "extraction"}
          /\ CalledWith("general_response", "raised")
          /\ C23_Failures >= 2
          /\ response = NoResponse
    /\ (pc \in {"done", "raised"} /\ C23_Failures <= 1) =>
          /\ pc = "done"
          /\ response.mode \in {"conversational", "elaboration", "descriptive",
                                "general"}
          /\ response.answer # None
    /\ CalledWith("setex", "raised") => Returned("descriptive")

\* the write of the session failed, nothing else did, and the turn has
\* returned its descriptive response
C23_Witness ==
    /\ CalledWith("setex", "raised")
    /\ C23_Failures = 1
    /\ Returned("descriptive")
    /\ response.answer = D_answer

\* C24: intent handling follows the fixed order conversational,
\* elaboration, follow-up rewriting, analytical detection: a conversational
\* message is answered from the rule table whatever else it matches; an
\* elaboration request with a last answer goes to the elaboration
\* collaborator, and when that answers no query is generated; a follow-up of
\* a stored question is rewritten before the query is generated; and the
\* reasoning pipeline runs exactly for messages whose original text is
\* analytical.
C24_FixedPrecedence ==
    pc # "idle" =>
        IF _is_conversational(message)
        THEN Returned("conversational") /\ calls = <<>>
        ELSE IF _is_elaboration_request(message) /\ Truthy(state.last_descriptive)
                /\ ~CalledWith("elaborate", "raised")
        THEN /\ pc = "elaborate" \/ Returned("elaboration")
             /\ ~Called("sql_writer") /\ executed = <<>>
        ELSE /\ (Called("sql_writer") /\ C17_IsFollowup) =>
                   (calls[1].fn = "contextualize"
                    \/ (calls[1].fn = "elaborate" /\ calls[2].fn = "contextualize"))
             /\ CalledWith("descriptive", "ok") =>
                   ((pc = "reasoning" \/ Called("analyze_with_reasoning"))
                       <=> IsAnalytical(message))

\* the first execution has failed: the executor raised, or it returned a
\* payload that line 166 raises for
C25_FirstFailed ==
    /\ Len(replies) >= 1
    /\ replies[1].raised \/ EncodesError(replies[1].text)

\* str(e) of the first execution's failure
C25_FirstError ==
    IF replies[1].raised THEN replies[1].text
    ELSE SQL_ERROR_IN_RESULT \o replies[1].text

\* the text names neither 'limit' nor 'syntax error', in any letter case
C25_NotRetryableText(e_str) ==
    /\ ~Contains(Lower(e_str), W_LIMIT)
    /\ ~Contains(Lower(e_str), W_SYNTAX_ERROR)

\* C25: when the first execution fails with an error whose text names
\* neither 'limit' nor 'syntax error', no repair is attempted: the data store
\* has been invoked once, with the validated query, and the failure that
\* reaches process_message carries that error and that query.
C25_OtherErrorsFatal ==
    (C25_FirstFailed /\ C25_NotRetryableText(C25_FirstError)) =>
        /\ Len(executed) = 1 /\ Len(replies) = 1
        /\ executed[1] = sql
        /\ sql_fixed = <<>> /\ first_error = <<>>
        /\ error = [kind |-> "execution", detail |-> C25_FirstError, query |-> sql]
        /\ out = NoOut
        /\ pc \in {"fallback", "done", "raised"}
        /\ pc = "done" => response.mode = "general"

\* the executor raised a connection error and the general fallback answered
\* after one execution
C25_Witness ==
    /\ C25_FirstFailed
    /\ replies[1] = [raised |-> TRUE, text |-> E_connection]
    /\ Returned("general")
    /\ executed = <<sql>>
    /\ error.detail = E_connection

\* the closed set of entity types
C26_EntityTypes == {"customer", "item", "sbu", "zone", "unknown"}

\* C26: in every stored session state, and in every new state a turn is
\* about to store, entity_type is one of customer, item, sbu, zone, unknown,
\* whatever the entity extractor returned.
C26_EntityTypeInClosedSet ==
    /\ store # <<>> => store[1].entity_type \in C26_EntityTypes
    /\ new_state.entity_type \in C26_EntityTypes

\* the entity extractor has returned a text
C30_ExtractorReturned ==
    \E r \in {"parsed", "unparsable", "unusable"} : CalledWith("extract_entities", r)

\* C30: once the query has executed, the answer has been generated and the
\* entity extractor has returned a text, whatever the text, the turn goes on
\* to the write of the session and returns mode descriptive.
C30_AnyExtractorTextDescriptive ==
    C30_ExtractorReturned =>
        /\ pc \in {"save", "done"}
        /\ ~Called("general_response")
        /\ pc = "done" => (response.mode = "descriptive" /\ Called("setex"))

\* C27: the result of a query path that reported success, from the first
\* execution or from the repaired one, is never a payload that encodes an
\* error, and a turn that returns mode descriptive neither carries nor stores
\* such a payload as its result.
C27_SuccessResultIsNoErrorPayload ==
    /\ out # NoOut => ~EncodesError(out.result)
    /\ Returned("descriptive") => ~EncodesError(new_state.last_result)

\* call t was an elaboration turn that has ended: the collaborator
\* answered, or it failed and the call ended in the general fallback
C28_ElaborationTurn(t) ==
    /\ turns[t].pc = "done"
    /\ \/ turns[t].mode = "elaboration"
       \/ turns[t].elaborate = "raised" /\ turns[t].mode = "general"

\* the last question, last answer and last result of a session state, as
\* the elaboration collaborator gets them
C28_Grounding(st) ==
    <<OrEmpty(st.last_question), st.last_descriptive, OrEmpty(st.last_result)>>

\* the state that the write read_from left in the key
C28_StateOf(w) == IF w \in Turns THEN turns[w].new_state ELSE PriorState

\* C28: an elaboration turn, answered or failed and ended in the general
\* fallback, writes nothing to its conversation; an answered one is grounded
\* in the last question, answer and result of the state it read, which is
\* the state the most recent descriptive turn wrote, so elaboration requests
\* with no write between them have the same grounding.
C28_ElaborationLeavesSessionUnchanged ==
    /\ \A t \in Turns :
          C28_ElaborationTurn(t) =>
              /\ ~turns[t].saved
              /\ last_write[turns[t].session_id] # t
              /\ turns[t].new_state = DefaultState
              /\ turns[t].read_from \in Turns \cup {Initial}
              /\ turns[t].state = C28_StateOf(turns[t].read_from)
              /\ turns[t].mode = "elaboration" =>
                    turns[t].grounding = C28_Grounding(C28_StateOf(turns[t].read_from))
    /\ \A a, b \in Turns :
          (/\ turns[a].mode = "elaboration" /\ turns[b].mode = "elaboration"
           /\ turns[a].session_id = turns[b].session_id
           /\ turns[a].read_from = turns[b].read_from)
              => turns[a].grounding = turns[b].grounding

\* two elaboration requests on the same conversation have been answered from
\* the same stored state, which the key still holds
C28_Witness ==
    /\ turns[1].mode = "elaboration" /\ turns[2].mode = "elaboration"
    /\ turns[1].pc = "done" /\ turns[2].pc = "done"
    /\ turns[1].session_id = "s1" /\ turns[2].session_id = "s1"
    /\ turns[1].grounding = C28_Grounding(PriorState)
    /\ turns[2].grounding = C28_Grounding(PriorState)
    /\ redis["s1"] = <<model_dump_json(PriorState)>>
    /\ last_write["s1"] = Initial

\* the start indexes of the LIMIT n clauses of a statement
C29_Clauses(sql_text) ==
    { k \in 1..Len(sql_text) : LimitMatchEnd(sql_text, k) > 0 }

\* the value of the n-th LIMIT clause of a statement, counted from the left
C29_Value(sql_text, n) ==
    LET ks == C29_Clauses(sql_text)
        k  == CHOOSE i \in ks : Cardinality({ j \in ks : j < i }) = n - 1
    IN  IntOf(LimitMatchDigits(sql_text, k), 0)

\* C29: the normalized form of an accepted statement has the LIMIT clauses
\* of the statement, and the value of each of them is at most the value of
\* the clause it came from and at most the default limit.
C29_NoLimitRaised ==
    (g_pc = "accepted" /\ HasLimit(g_sql)) =>
        /\ Cardinality(C29_Clauses(g_out)) = Cardinality(C29_Clauses(g_sql))
        /\ \A n \in 1..Cardinality(C29_Clauses(g_sql)) :
              /\ C29_Value(g_out, n) <= C29_Value(g_sql, n)
              /\ C29_Value(g_out, n) <= DEFAULT_LIMIT

====
